---- MODULE Spec2Model ----
(***************************************************************************)
(* Model of the hackathon-todo repository: the persisted task store with   *)
(* its REST routes (backend/src) and the in-memory CLI task service (src). *)
(*                                                                         *)
(* Python values.  A value that may be None is a sequence of length at     *)
(* most one: <<>> is None and <<v>> is the value v.  A Python str is the   *)
(* sequence of its characters, so that len() and strip() are computed.     *)
(* User ids and priorities are only compared, and are TLA+ strings.        *)
(***************************************************************************)
EXTENDS Integers, Sequences, FiniteSets, TLC

VARIABLES
    program,   \* which program of the repository this run is of
    inputs,    \* which family of requests this run draws from
    clock,     \* the last value datetime.now(UTC) returned
    db,        \* table "tasks": primary key -> row
    id_seq,    \* next primary key the database hands out
    resp,      \* the last HTTP request handled and its response
    ret,       \* the last direct call of a crud function and its result
    tasks,     \* task_service.tasks, the CLI's list of task dicts
    next_id,   \* task_service.next_id
    cli_ret,   \* the last task_service call and the tuple it returned
    flight     \* the HTTP requests being served concurrently, each in its session

vars == <<program, inputs, clock, db, id_seq, resp, ret, tasks, next_id, cli_ret,
          flight>>

None == <<>>
Some(v) == <<v>>
IsNone(o) == Len(o) = 0
Val(o) == o[1]

(***************************************************************************)
(* Bounds and program constants                                            *)
(***************************************************************************)
MaxTasks == 2          \* rows created per run (the primary keys 1..MaxTasks)
MaxCliTasks == 2       \* CLI tasks created per run
MaxClock == 2          \* the logical clock runs from 0 to MaxClock

MaxTitleLen == 200
MaxDescLen == 1000
HTTP_200_OK == 200
HTTP_201_CREATED == 201
HTTP_204_NO_CONTENT == 204
HTTP_400_BAD_REQUEST == 400
HTTP_401_UNAUTHORIZED == 401
HTTP_403_FORBIDDEN == 403
HTTP_404_NOT_FOUND == 404
HTTP_422_UNPROCESSABLE == 422
HTTP_500_INTERNAL == 500

Users == {"u1", "u2"}
TaskIds == 1..MaxTasks

BodyFields == {"title", "description", "complete"}

\* The strings the requests are built from.
TitleA == <<"a">>
TitleB == <<" ", "b">>
Empty == <<>>
DescD == <<"d">>
Blank == <<" ">>
X200 == [i \in 1..MaxTitleLen |-> "x"]
X201 == [i \in 1..(MaxTitleLen + 1) |-> "x"]
D1000 == [i \in 1..MaxDescLen |-> "y"]
D1001 == [i \in 1..(MaxDescLen + 1) |-> "y"]

(***************************************************************************)
(* Identity verifier: core/auth.py and api/dependencies.py                 *)
(***************************************************************************)
\* A token is what jwt.decode sees: whether the signature verifies, whether
\* exp has passed, and the claims it carries.
Token(sig, expired, claims) == [sig_ok |-> sig, expired |-> expired, claims |-> claims]

\* dict.get(key): None when the key is absent.
Get(d, k) == IF k \in DOMAIN d THEN Some(d[k]) ELSE None

\* Python truthiness of an optional str: None and "" are falsy.
Truthy(o) == ~IsNone(o) /\ Val(o) # ""

\* The decoding without the check of exp.
decode_jwt_token_ignores_exp(token) ==
    IF ~token.sig_ok
    THEN [ok |-> FALSE, claims |-> <<>>]
    ELSE [ok |-> TRUE, claims |-> token.claims]

\* decode_jwt_token: the claims, or AuthError (ok = FALSE).
decode_jwt_token(token) ==
    IF ~token.sig_ok \/ token.expired
    THEN [ok |-> FALSE, claims |-> <<>>]
    ELSE [ok |-> TRUE, claims |-> token.claims]

\* The extraction with the two claims in the other order.
extract_user_id_from_token_prefers_sub(token) ==
    LET d == decode_jwt_token(token)
        uid == IF d.ok THEN Get(d.claims, "user_id") ELSE None
        sub == IF d.ok THEN Get(d.claims, "sub") ELSE None
        user_id == IF Truthy(sub) THEN sub ELSE uid
    IN  IF ~d.ok \/ ~Truthy(user_id)
        THEN [ok |-> FALSE, user |-> None]
        ELSE [ok |-> TRUE, user |-> user_id]

\* extract_user_id_from_token: claims.get("user_id") or claims.get("sub").
extract_user_id_from_token(token) ==
    LET d == decode_jwt_token(token)
        uid == IF d.ok THEN Get(d.claims, "user_id") ELSE None
        sub == IF d.ok THEN Get(d.claims, "sub") ELSE None
        user_id == IF Truthy(uid) THEN uid ELSE sub
    IN  IF ~d.ok \/ ~Truthy(user_id)
        THEN [ok |-> FALSE, user |-> None]
        ELSE [ok |-> TRUE, user |-> user_id]

\* get_current_user: the Authorization header is None or a record
\* [bearer: it starts with "Bearer ", token: the rest].
get_current_user(authorization) ==
    IF IsNone(authorization) \/ ~Val(authorization).bearer
    THEN [ok |-> FALSE, user |-> None]
    ELSE extract_user_id_from_token(Val(authorization).token)

\* The gate left open.
verify_user_id_match_open(current_user, path_user_id) == TRUE

\* verify_user_id_match: TRUE when the gate lets the request through.
verify_user_id_match(current_user, path_user_id) == current_user = path_user_id

Bearer(token) == Some([bearer |-> TRUE, token |-> token])

Headers ==
    { None,
      Some([bearer |-> FALSE, token |-> Token(TRUE, FALSE, [user_id |-> "u1"])]),
      Bearer(Token(FALSE, FALSE, [user_id |-> "u1"])),
      Bearer(Token(TRUE, FALSE, [user_id |-> "u1"])),
      Bearer(Token(TRUE, FALSE, [sub |-> "u2"])) }

\* Every way a credential fails, and every way a token names its user.
NoClaims == [k \in {} |-> ""]
AuthHeaders ==
    Headers \cup
    { Bearer(Token(TRUE, TRUE, [user_id |-> "u1"])),
      Bearer(Token(TRUE, FALSE, NoClaims)),
      Bearer(Token(TRUE, FALSE, [user_id |-> ""])),
      Bearer(Token(TRUE, FALSE, [user_id |-> "u1", sub |-> "u2"])),
      Bearer(Token(TRUE, FALSE, [user_id |-> "", sub |-> "u2"])) }

\* The header of a request that user u1 signs in with.
OwnerHeader == Bearer(Token(TRUE, FALSE, [user_id |-> "u1"]))

(***************************************************************************)
(* Request and response schemas: schemas/task.py                           *)
(*                                                                         *)
(* A JSON body is a function from the keys it carries to their values,     *)
(* null being None.  A validated model is [valid, data, fields_set].       *)
(***************************************************************************)
Field(body, f) == IF f \in DOMAIN body THEN body[f] ELSE None

\* The title field without max_length.
RequiredTitleOk_unbounded(body) ==
    /\ "title" \in DOMAIN body
    /\ ~IsNone(body["title"])
    /\ Len(Val(body["title"])) >= 1

\* title: str = Field(..., min_length=1, max_length=200)
RequiredTitleOk(body) ==
    /\ "title" \in DOMAIN body
    /\ ~IsNone(body["title"])
    /\ Len(Val(body["title"])) >= 1
    /\ Len(Val(body["title"])) <= MaxTitleLen

\* description: str | None = Field(None, max_length=1000)
OptionalDescriptionOk(body) ==
    IsNone(Field(body, "description")) \/ Len(Val(Field(body, "description"))) <= MaxDescLen

TaskCreate(body) ==
    [ valid |-> RequiredTitleOk(body) /\ OptionalDescriptionOk(body),
      data |-> [title |-> Field(body, "title"), description |-> Field(body, "description")],
      fields_set |-> DOMAIN body \cap {"title", "description"} ]

TaskUpdate(body) ==
    [ valid |-> /\ RequiredTitleOk(body)
                /\ OptionalDescriptionOk(body)
                /\ "complete" \in DOMAIN body
                /\ ~IsNone(body["complete"]),
      data |-> [f \in BodyFields |-> Field(body, f)],
      fields_set |-> DOMAIN body \cap BodyFields ]

\* title: str | None = Field(None, min_length=1, max_length=200), and so on:
\* every field may be absent or null.
TaskPatch(body) ==
    [ valid |-> /\ \/ IsNone(Field(body, "title"))
                   \/ /\ Len(Val(body["title"])) >= 1
                      /\ Len(Val(body["title"])) <= MaxTitleLen
                /\ OptionalDescriptionOk(body),
      data |-> [f \in BodyFields |-> Field(body, f)],
      fields_set |-> DOMAIN body \cap BodyFields ]

\* model_dump() that leaves the completion flag out, and
\* model_dump(exclude_unset=True) that leaves nothing out.
model_dump_without_complete(m) == [f \in {"title", "description"} |-> m.data[f]]
model_dump_exclude_unset_all(m) == m.data

\* model_dump(): every field of the model; model_dump(exclude_unset=True):
\* the fields the request carried.
model_dump(m) == m.data
model_dump_exclude_unset(m) == [f \in m.fields_set |-> m.data[f]]

(***************************************************************************)
(* Task model and store: models/task.py and database/crud.py               *)
(*                                                                         *)
(* A store is [db, id_seq, now]: the table, its key sequence, and the      *)
(* values the next two readings of datetime.now(UTC) return.  Each crud    *)
(* function returns the store after the call with its result; raised =     *)
(* TRUE is an SQLAlchemyError that propagated after session.rollback().    *)
(***************************************************************************)
TaskAttrs == {"id", "user_id", "title", "description", "complete",
              "created_at", "updated_at"}

\* Columns declared without "| None": the table rejects NULL in them.
NotNullColumns == {"title", "complete"}

\* Task(user_id=..., title=..., description=...) with the column defaults:
\* the default factories of created_at and updated_at each read the clock,
\* in the order of the fields.
Task(id, user_id, title, description, now) ==
    [id |-> id, user_id |-> user_id, title |-> title,
     description |-> description, complete |-> Some(FALSE),
     created_at |-> now[1], updated_at |-> now[2]]

\* session.commit() fails with IntegrityError on a NULL in a NOT NULL column.
IntegrityError(task) == \E c \in NotNullColumns : IsNone(task[c])

EmptyDb == [i \in {} |-> None]
Insert(table, task) == [i \in DOMAIN table \cup {task.id} |->
                            IF i = task.id THEN task ELSE table[i]]
Remove(table, id) == [i \in DOMAIN table \ {id} |-> table[i]]

create_task(s, user_id, title, description) ==
    LET task == Task(s.id_seq, user_id, title, description, s.now)
    IN  IF IntegrityError(task) \/ s.fails
        THEN [db |-> s.db, id_seq |-> s.id_seq, task |-> None, raised |-> TRUE]
        ELSE [db |-> Insert(s.db, task), id_seq |-> s.id_seq + 1,
              task |-> Some(task), raised |-> FALSE]

\* session.get(Task, task_id)
get_task_by_id(s, task_id) == Get(s.db, task_id)

\* The query without its where clause.
get_tasks_by_user_unfiltered(s, user_id) == {s.db[i] : i \in DOMAIN s.db}

\* select(Task).where(Task.user_id == user_id); the query has no ORDER BY,
\* the result is the set of matching rows.
get_tasks_by_user(s, user_id) ==
    {s.db[i] : i \in {j \in DOMAIN s.db : s.db[j].user_id = user_id}}

\* The loop without hasattr: every key of the map becomes an attribute.
SetAttrs_every_key(task, updates) ==
    [a \in DOMAIN task \cup DOMAIN updates |->
        IF a \in DOMAIN updates THEN updates[a] ELSE task[a]]

\* The loop of update_task: setattr for every key that names an attribute.
SetAttrs(task, updates) ==
    [a \in DOMAIN task |-> IF a \in DOMAIN updates THEN updates[a] ELSE task[a]]

\* session.commit(): the flush emits an UPDATE when an attribute has a new
\* value, and the UPDATE sets updated_at from its onupdate default; with no
\* new value nothing is written.
Flush(before, after, now) ==
    IF after = before \/ after.updated_at # before.updated_at THEN after
    ELSE [after EXCEPT !.updated_at = now[1]]

\* update_task whose except branch does not roll the session back: the
\* attributes set before the failure stay on the row.
update_task_without_rollback(s, task_id, updates) ==
    IF task_id \notin DOMAIN s.db
    THEN [db |-> s.db, id_seq |-> s.id_seq, task |-> None, raised |-> FALSE]
    ELSE LET task == SetAttrs(s.db[task_id], updates)
             row == Flush(s.db[task_id], task, s.now)
         IN  IF IntegrityError(task) \/ (s.fails /\ task # s.db[task_id])
             THEN [db |-> Insert(s.db, task), id_seq |-> s.id_seq, task |-> None,
                   raised |-> TRUE]
             ELSE [db |-> Insert(s.db, row), id_seq |-> s.id_seq,
                   task |-> Some(row), raised |-> FALSE]

update_task(s, task_id, updates) ==
    IF task_id \notin DOMAIN s.db
    THEN [db |-> s.db, id_seq |-> s.id_seq, task |-> None, raised |-> FALSE]
    ELSE LET task == SetAttrs(s.db[task_id], updates)
             row == Flush(s.db[task_id], task, s.now)
         IN  IF IntegrityError(task) \/ (s.fails /\ task # s.db[task_id])
             THEN [db |-> s.db, id_seq |-> s.id_seq, task |-> None, raised |-> TRUE]
             ELSE [db |-> Insert(s.db, row), id_seq |-> s.id_seq,
                   task |-> Some(row), raised |-> FALSE]

\* delete_task that reports a deletion whether or not the row was there.
delete_task_reports_deleted(s, task_id) ==
    [db |-> [i \in DOMAIN s.db \ {task_id} |-> s.db[i]], id_seq |-> s.id_seq,
     deleted |-> TRUE, raised |-> FALSE]

delete_task(s, task_id) ==
    IF task_id \notin DOMAIN s.db
    THEN [db |-> s.db, id_seq |-> s.id_seq, deleted |-> FALSE, raised |-> FALSE]
    ELSE IF s.fails
    THEN [db |-> s.db, id_seq |-> s.id_seq, deleted |-> FALSE, raised |-> TRUE]
    ELSE [db |-> Remove(s.db, task_id), id_seq |-> s.id_seq, deleted |-> TRUE,
          raised |-> FALSE]

(***************************************************************************)
(* Routes: api/routes/tasks.py.  Each takes the store, the authenticated   *)
(* user, the path parameters and the validated body, and returns the store *)
(* after the request with the response [status, out].                      *)
(***************************************************************************)
Reply(s, status, out) == [db |-> s.db, id_seq |-> s.id_seq, status |-> status, out |-> out]

\* TaskResponse.model_validate(task): the projection of a row.
TaskResponse(task) == [a \in TaskAttrs |-> task[a]]

list_tasks(s, current_user, user_id) ==
    IF ~verify_user_id_match(current_user, user_id)
    THEN Reply(s, HTTP_403_FORBIDDEN, None)
    ELSE LET found == get_tasks_by_user(s, user_id)
         IN  Reply(s, HTTP_200_OK,
                   Some([tasks |-> {TaskResponse(t) : t \in found},
                         count |-> Cardinality(found)]))

\* create_new_task that does not pass the description on.
create_new_task_no_description(s, current_user, user_id, task_in) ==
    IF current_user # user_id
    THEN [db |-> s.db, id_seq |-> s.id_seq, status |-> HTTP_403_FORBIDDEN, out |-> None]
    ELSE LET c == create_task(s, user_id, task_in.data["title"], None)
         IN  [db |-> c.db, id_seq |-> c.id_seq, status |-> HTTP_201_CREATED,
              out |-> c.task]

\* create_new_task that creates for the path's owner whoever asks.
create_new_task_for_anyone(s, current_user, user_id, task_in) ==
    LET c == create_task(s, user_id, task_in.data["title"], task_in.data["description"])
    IN  IF c.raised
        THEN Reply(s, HTTP_500_INTERNAL, None)
        ELSE Reply(c, HTTP_201_CREATED, Some(TaskResponse(Val(c.task))))

create_new_task(s, current_user, user_id, task_in) ==
    IF ~verify_user_id_match(current_user, user_id)
    THEN Reply(s, HTTP_403_FORBIDDEN, None)
    ELSE LET c == create_task(s, user_id, task_in.data["title"], task_in.data["description"])
         IN  IF c.raised
             THEN Reply(s, HTTP_500_INTERNAL, None)
             ELSE Reply(c, HTTP_201_CREATED, Some(TaskResponse(Val(c.task))))

\* get_task without the ownership check on the row it fetched.
get_task_unchecked(s, current_user, user_id, task_id) ==
    IF current_user # user_id
    THEN [db |-> s.db, id_seq |-> s.id_seq, status |-> HTTP_403_FORBIDDEN, out |-> None]
    ELSE IF task_id \notin DOMAIN s.db
    THEN [db |-> s.db, id_seq |-> s.id_seq, status |-> HTTP_404_NOT_FOUND, out |-> None]
    ELSE [db |-> s.db, id_seq |-> s.id_seq, status |-> HTTP_200_OK,
          out |-> Some(s.db[task_id])]

get_task(s, current_user, user_id, task_id) ==
    IF ~verify_user_id_match(current_user, user_id)
    THEN Reply(s, HTTP_403_FORBIDDEN, None)
    ELSE LET task == get_task_by_id(s, task_id)
         IN  IF IsNone(task) THEN Reply(s, HTTP_404_NOT_FOUND, None)
             ELSE IF Val(task).user_id # user_id THEN Reply(s, HTTP_403_FORBIDDEN, None)
             ELSE Reply(s, HTTP_200_OK, Some(TaskResponse(Val(task))))

\* update_existing_task answering 404 for a task that is found but not owned.
update_existing_task_hides(s, current_user, user_id, task_id, task_in) ==
    IF current_user # user_id
    THEN [db |-> s.db, id_seq |-> s.id_seq, status |-> HTTP_403_FORBIDDEN, out |-> None]
    ELSE IF task_id \notin DOMAIN s.db \/ s.db[task_id].user_id # user_id
    THEN [db |-> s.db, id_seq |-> s.id_seq, status |-> HTTP_404_NOT_FOUND, out |-> None]
    ELSE LET task == [a \in DOMAIN s.db[task_id] |->
                        IF a \in DOMAIN task_in.data THEN task_in.data[a]
                        ELSE s.db[task_id][a]]
         IN  [db |-> [s.db EXCEPT ![task_id] = task], id_seq |-> s.id_seq,
              status |-> HTTP_200_OK, out |-> Some(task)]

update_existing_task(s, current_user, user_id, task_id, task_in) ==
    IF ~verify_user_id_match(current_user, user_id)
    THEN Reply(s, HTTP_403_FORBIDDEN, None)
    ELSE LET task == get_task_by_id(s, task_id)
         IN  IF IsNone(task) THEN Reply(s, HTTP_404_NOT_FOUND, None)
             ELSE IF Val(task).user_id # user_id THEN Reply(s, HTTP_403_FORBIDDEN, None)
             ELSE LET u == update_task(s, task_id, model_dump(task_in))
                  IN  IF u.raised THEN Reply(s, HTTP_500_INTERNAL, None)
                      ELSE IF IsNone(u.task) THEN Reply(u, HTTP_404_NOT_FOUND, None)
                      ELSE Reply(u, HTTP_200_OK, Some(TaskResponse(Val(u.task))))

\* partially_update_task without the check for an empty update.
partially_update_task_unguarded(s, current_user, user_id, task_id, task_in) ==
    IF current_user # user_id
    THEN [db |-> s.db, id_seq |-> s.id_seq, status |-> HTTP_403_FORBIDDEN, out |-> None]
    ELSE IF task_id \notin DOMAIN s.db
    THEN [db |-> s.db, id_seq |-> s.id_seq, status |-> HTTP_404_NOT_FOUND, out |-> None]
    ELSE IF s.db[task_id].user_id # user_id
    THEN [db |-> s.db, id_seq |-> s.id_seq, status |-> HTTP_403_FORBIDDEN, out |-> None]
    ELSE LET u == update_task(s, task_id, [f \in task_in.fields_set |-> task_in.data[f]])
         IN  IF u.raised
             THEN [db |-> s.db, id_seq |-> s.id_seq, status |-> HTTP_500_INTERNAL,
                   out |-> None]
             ELSE [db |-> u.db, id_seq |-> u.id_seq, status |-> HTTP_200_OK,
                   out |-> u.task]

partially_update_task(s, current_user, user_id, task_id, task_in) ==
    IF ~verify_user_id_match(current_user, user_id)
    THEN Reply(s, HTTP_403_FORBIDDEN, None)
    ELSE LET task == get_task_by_id(s, task_id)
             update_data == model_dump_exclude_unset(task_in)
         IN  IF IsNone(task) THEN Reply(s, HTTP_404_NOT_FOUND, None)
             ELSE IF Val(task).user_id # user_id THEN Reply(s, HTTP_403_FORBIDDEN, None)
             ELSE IF DOMAIN update_data = {} THEN Reply(s, HTTP_400_BAD_REQUEST, None)
             ELSE LET u == update_task(s, task_id, update_data)
                  IN  IF u.raised THEN Reply(s, HTTP_500_INTERNAL, None)
                      ELSE IF IsNone(u.task) THEN Reply(u, HTTP_404_NOT_FOUND, None)
                      ELSE Reply(u, HTTP_200_OK, Some(TaskResponse(Val(u.task))))

\* delete_task_by_id looking the task up before the gate.
delete_task_by_id_lookup_first(s, current_user, user_id, task_id) ==
    IF task_id \notin DOMAIN s.db
    THEN [db |-> s.db, id_seq |-> s.id_seq, status |-> HTTP_404_NOT_FOUND, out |-> None]
    ELSE IF current_user # user_id \/ s.db[task_id].user_id # user_id
    THEN [db |-> s.db, id_seq |-> s.id_seq, status |-> HTTP_403_FORBIDDEN, out |-> None]
    ELSE [db |-> [i \in DOMAIN s.db \ {task_id} |-> s.db[i]], id_seq |-> s.id_seq,
          status |-> HTTP_204_NO_CONTENT, out |-> None]

delete_task_by_id(s, current_user, user_id, task_id) ==
    IF ~verify_user_id_match(current_user, user_id)
    THEN Reply(s, HTTP_403_FORBIDDEN, None)
    ELSE LET task == get_task_by_id(s, task_id)
         IN  IF IsNone(task) THEN Reply(s, HTTP_404_NOT_FOUND, None)
             ELSE IF Val(task).user_id # user_id THEN Reply(s, HTTP_403_FORBIDDEN, None)
             ELSE LET d == delete_task(s, task_id)
                  IN  IF d.raised THEN Reply(s, HTTP_500_INTERNAL, None)
                      ELSE IF ~d.deleted THEN Reply(d, HTTP_404_NOT_FOUND, None)
                      ELSE Reply(d, HTTP_204_NO_CONTENT, None)

(***************************************************************************)
(* A request as the router sees it: the dependency get_current_user is     *)
(* resolved first (401), then the body is validated against the route's    *)
(* schema (422), then the route function runs.                             *)
(***************************************************************************)
Methods == {"LIST", "POST", "GET", "PUT", "PATCH", "DELETE"}
ItemMethods == {"GET", "PUT", "PATCH", "DELETE"}

Serve(s, req) ==
    LET cu == get_current_user(req.header)
        me == Val(cu.user)
    IN  IF ~cu.ok THEN Reply(s, HTTP_401_UNAUTHORIZED, None)
        ELSE CASE req.method = "LIST" -> list_tasks(s, me, req.user_id)
               [] req.method = "POST" ->
                    IF ~TaskCreate(req.body).valid
                    THEN Reply(s, HTTP_422_UNPROCESSABLE, None)
                    ELSE create_new_task(s, me, req.user_id, TaskCreate(req.body))
               [] req.method = "GET" -> get_task(s, me, req.user_id, req.task_id)
               [] req.method = "PUT" ->
                    IF ~TaskUpdate(req.body).valid
                    THEN Reply(s, HTTP_422_UNPROCESSABLE, None)
                    ELSE update_existing_task(s, me, req.user_id, req.task_id,
                                              TaskUpdate(req.body))
               [] req.method = "PATCH" ->
                    IF ~TaskPatch(req.body).valid
                    THEN Reply(s, HTTP_422_UNPROCESSABLE, None)
                    ELSE partially_update_task(s, me, req.user_id, req.task_id,
                                               TaskPatch(req.body))
               [] req.method = "DELETE" -> delete_task_by_id(s, me, req.user_id, req.task_id)

\* The body passes the schema of the request's route.
SchemaAccepts(req) ==
    CASE req.method = "POST" -> TaskCreate(req.body).valid
      [] req.method = "PUT" -> TaskUpdate(req.body).valid
      [] req.method = "PATCH" -> TaskPatch(req.body).valid
      [] OTHER -> TRUE

\* The authenticated subject of a request, None when it has none.
Subject(req) == get_current_user(req.header).user

(***************************************************************************)
(* The requests the model issues                                           *)
(***************************************************************************)
TitleValues == {None, Some(Empty), Some(TitleA), Some(TitleB)}
DescriptionValues == {None, Some(DescD)}
CompleteValues == {None, Some(TRUE), Some(FALSE)}

\* A JSON object over the three fields: each is left out (None) or carried
\* with one of its values.
Body(t, d, c) ==
    LET carried == [title |-> t, description |-> d, complete |-> c]
    IN  [f \in {g \in BodyFields : ~IsNone(carried[g])} |-> Val(carried[f])]

Carried(values) == {None} \cup {Some(v) : v \in values}

\* Every such object, and one whose only key is unknown to the schemas.
Bodies ==
    { Body(t, d, c) : t \in Carried(TitleValues), d \in Carried(DescriptionValues),
                      c \in Carried(CompleteValues) }
    \cup { [k \in {"priority"} |-> Some(TitleA)] }

NoBody == [f \in {} |-> None]
CreateBodies == { b \in Bodies : DOMAIN b \subseteq {"title", "description"} }

\* The family "auth" varies the credential and sends one body.
AuthBodies == { Body(Some(Some(TitleA)), d, c) : d \in {None, Some(Some(DescD))},
                                                c \in {None, Some(Some(TRUE))} }

\* The family "limits" sends titles and descriptions at the length limits,
\* a title of one blank, and a null title.
LimitTitleValues == {None, Some(Blank), Some(X200), Some(X201)}
LimitDescriptionValues == {None, Some(D1000), Some(D1001)}
LimitBodies ==
    { Body(t, d, c) : t \in Carried(LimitTitleValues),
                      d \in Carried(LimitDescriptionValues),
                      c \in {None, Some(Some(TRUE))} }

\* The family "time" lets the clock run and sends few bodies.
TimeBodies ==
    { Body(t, None, c) : t \in {None, Some(Some(TitleA)), Some(Some(TitleB))},
                         c \in {None, Some(Some(TRUE))} }

Families == {"fields", "auth", "limits", "time"}

RequestHeaders ==
    CASE inputs = "auth" -> AuthHeaders
      [] inputs \in {"limits", "time"} -> {OwnerHeader}
      [] OTHER -> Headers

RequestUsers == IF inputs \in {"limits", "time"} THEN {"u1"} ELSE Users

RequestBodies ==
    CASE inputs = "auth" -> AuthBodies
      [] inputs = "limits" -> LimitBodies
      [] inputs = "time" -> TimeBodies
      [] OTHER -> Bodies

RequestCreateBodies ==
    { b \in RequestBodies : DOMAIN b \subseteq {"title", "description"} }

\* The values the next two readings of the clock return: the clock never
\* runs backwards; outside the family "time" it stands still.
Readings ==
    IF inputs = "time"
    THEN { <<t1, t2>> \in (clock..MaxClock) \X (clock..MaxClock) : t1 <= t2 }
    ELSE { <<clock, clock>> }

Request(method, header, user_id, task_id, body) ==
    [method |-> method, header |-> header, user_id |-> user_id,
     task_id |-> task_id, body |-> body]

Store(now) == [db |-> db, id_seq |-> id_seq, now |-> now, fails |-> FALSE]

\* The store of a call during which the database rejects a write (fails).
StoreThat(fails) == [Store(<<clock, clock>>) EXCEPT !.fails = fails]

(***************************************************************************)
(* State machine of the REST API: one action per route.  The server takes  *)
(* a request when the previous response has been returned (one request,    *)
(* one transaction); resp holds the request being answered, its subject    *)
(* and its response until Return.                                          *)
(***************************************************************************)
Handle(req, now) ==
    LET r == Serve(Store(now), req)
    IN  /\ db' = r.db
        /\ id_seq' = r.id_seq
        /\ clock' = now[2]
        /\ resp' = Some([req |-> req, subject |-> Subject(req),
                         status |-> r.status, out |-> r.out])
        /\ UNCHANGED <<program, inputs, ret, tasks, next_id, cli_ret, flight>>

Idle == program = "api" /\ resp = None

ListTasks ==
    /\ Idle
    /\ \E h \in RequestHeaders, u \in RequestUsers, now \in Readings :
          Handle(Request("LIST", h, u, 0, NoBody), now)

CreateNewTask ==
    /\ Idle
    /\ id_seq <= MaxTasks
    /\ \E h \in RequestHeaders, u \in RequestUsers, b \in RequestCreateBodies,
          now \in Readings :
          Handle(Request("POST", h, u, 0, b), now)

GetTask ==
    /\ Idle
    /\ \E h \in RequestHeaders, u \in RequestUsers, i \in TaskIds, now \in Readings :
          Handle(Request("GET", h, u, i, NoBody), now)

UpdateExistingTask ==
    /\ Idle
    /\ \E h \in RequestHeaders, u \in RequestUsers, i \in TaskIds,
          b \in RequestBodies, now \in Readings :
          Handle(Request("PUT", h, u, i, b), now)

PartiallyUpdateTask ==
    /\ Idle
    /\ \E h \in RequestHeaders, u \in RequestUsers, i \in TaskIds,
          b \in RequestBodies, now \in Readings :
          Handle(Request("PATCH", h, u, i, b), now)

DeleteTaskById ==
    /\ Idle
    /\ \E h \in RequestHeaders, u \in RequestUsers, i \in TaskIds, now \in Readings :
          Handle(Request("DELETE", h, u, i, NoBody), now)

\* The response leaves the server.
Return ==
    /\ program = "api"
    /\ resp # None
    /\ resp' = None
    /\ UNCHANGED <<program, inputs, clock, db, id_seq, ret, tasks, next_id, cli_ret, flight>>

(***************************************************************************)
(* The crud functions called directly on a session, as the unit tests of   *)
(* database/crud.py call them.  ret holds the call and its result until    *)
(* the caller has it.                                                      *)
(***************************************************************************)
\* The dicts update_task is called with: any of the three fields, or none,
\* a key that names no attribute alone or beside the title, and dicts that
\* name the owner or the creation time.
FieldMaps ==
    Bodies \cup { [k \in {"user_id"} |-> u] : u \in Users }
           \cup { [k \in {"created_at"} |-> MaxClock] }
           \cup { [k \in {"title", "priority"} |-> Some(TitleB)] }

\* ret holds the call, whether the database rejected a write during it
\* (fails), whether the call raised, and what it returned.
Called(fn, args, fails, r, result) ==
    /\ db' = r.db
    /\ id_seq' = r.id_seq
    /\ ret' = Some([fn |-> fn, args |-> args, fails |-> fails, raised |-> r.raised,
                    result |-> result])
    /\ UNCHANGED <<program, inputs, clock, resp, tasks, next_id, cli_ret, flight>>

Ready == program = "crud" /\ ret = None

CrudCreate ==
    /\ Ready
    /\ id_seq <= MaxTasks
    /\ \E u \in Users, t \in TitleValues \ {Some(Empty)}, d \in DescriptionValues,
          f \in BOOLEAN :
          LET r == create_task(StoreThat(f), u, t, d)
          IN  Called("create_task", [user_id |-> u, title |-> t, description |-> d],
                     f, r, r.task)

CrudUpdate ==
    /\ Ready
    /\ \E i \in TaskIds, m \in FieldMaps, f \in BOOLEAN :
          LET r == update_task(StoreThat(f), i, m)
          IN  Called("update_task", [task_id |-> i, updates |-> m], f, r, r.task)

CrudDelete ==
    /\ Ready
    /\ \E i \in TaskIds, f \in BOOLEAN :
          LET r == delete_task(StoreThat(f), i)
          IN  Called("delete_task", [task_id |-> i], f, r,
                     IF r.raised THEN None ELSE Some(r.deleted))

CrudGet ==
    /\ Ready
    /\ \E i \in TaskIds :
          Called("get_task_by_id", [task_id |-> i], FALSE,
                 [db |-> db, id_seq |-> id_seq, raised |-> FALSE],
                 get_task_by_id(Store(<<clock, clock>>), i))

CrudReturn ==
    /\ program = "crud"
    /\ ret # None
    /\ ret' = None
    /\ UNCHANGED <<program, inputs, clock, db, id_seq, resp, tasks, next_id, cli_ret, flight>>

(***************************************************************************)
(* CLI variant: src/models/task.py and src/services/task_service.py        *)
(***************************************************************************)
Whitespace == {" "}

\* str.strip(): leading and trailing whitespace removed.
RECURSIVE LStrip(_)
LStrip(str) == IF str # <<>> /\ Head(str) \in Whitespace THEN LStrip(Tail(str)) ELSE str

RECURSIVE RStrip(_)
RStrip(str) ==
    IF str # <<>> /\ str[Len(str)] \in Whitespace
    THEN RStrip(SubSeq(str, 1, Len(str) - 1))
    ELSE str

Strip(str) == LStrip(RStrip(str))

\* validate_title: (is_valid, error_message).  None is not a str.
validate_title(title) ==
    IF IsNone(title) THEN <<FALSE, "Title must be a string">>
    ELSE IF Strip(Val(title)) = <<>> THEN <<FALSE, "Title cannot be empty">>
    ELSE <<TRUE, "">>

valid_priorities == {"High", "Medium", "Low"}

\* validate_priority that compares without regard to case.
validate_priority_any_case(priority) ==
    IF IsNone(priority) THEN <<FALSE, "Priority must be a string">>
    ELSE IF Val(priority) \notin valid_priorities \cup {"high", "HIGH"}
         THEN <<FALSE, "Priority must be exactly 'High', 'Medium', or 'Low'">>
    ELSE <<TRUE, "">>

validate_priority(priority) ==
    IF IsNone(priority) THEN <<FALSE, "Priority must be a string">>
    ELSE IF Val(priority) \notin valid_priorities
         THEN <<FALSE, "Priority must be exactly 'High', 'Medium', or 'Low'">>
    ELSE <<TRUE, "">>

create_task_dict(task_id, title, description, priority) ==
    [id |-> task_id, title |-> Strip(title), description |-> description,
     priority |-> priority, complete |-> FALSE]

\* A task_service function returns the module state after the call and the
\* tuple (success, message, data).
CliResult(list, nid, success, message, data) ==
    [tasks |-> list, next_id |-> nid, success |-> success, message |-> message,
     data |-> data]

\* create_task that numbers the new task by the length of the list.
cli_create_task_counts(c, title, description, priority) ==
    IF ~validate_title(title)[1]
    THEN CliResult(c.tasks, c.next_id, FALSE, validate_title(title)[2], None)
    ELSE IF ~validate_priority(priority)[1]
    THEN CliResult(c.tasks, c.next_id, FALSE, validate_priority(priority)[2], None)
    ELSE LET task == create_task_dict(Len(c.tasks) + 1, Val(title), description,
                                      Val(priority))
         IN  CliResult(Append(c.tasks, task), c.next_id + 1, TRUE,
                       "Task added successfully", Some(task))

cli_create_task(c, title, description, priority) ==
    IF ~validate_title(title)[1]
    THEN CliResult(c.tasks, c.next_id, FALSE, validate_title(title)[2], None)
    ELSE IF ~validate_priority(priority)[1]
    THEN CliResult(c.tasks, c.next_id, FALSE, validate_priority(priority)[2], None)
    ELSE LET task == create_task_dict(c.next_id, Val(title), description, Val(priority))
         IN  CliResult(Append(c.tasks, task), c.next_id + 1, TRUE,
                       "Task added successfully", Some(task))

\* priority_order in alphabetical order.
priority_order_alphabetical(priority) ==
    CASE priority = "High" -> 0 [] priority = "Low" -> 1 [] priority = "Medium" -> 2

\* priority_order = {"High": 0, "Medium": 1, "Low": 2}
priority_order(priority) ==
    CASE priority = "High" -> 0 [] priority = "Medium" -> 1 [] priority = "Low" -> 2

\* The sort key of get_all_tasks; False sorts before True.
SortKey(t) == <<IF t.complete THEN 1 ELSE 0, priority_order(t.priority), t.id>>

\* Comparison of two key tuples, as Python compares tuples.
TupleLess(a, b) ==
    \E k \in 1..Len(a) : a[k] < b[k] /\ \A j \in 1..(k - 1) : a[j] = b[j]

\* sorted(list, key=SortKey): a stable insertion of each element in turn,
\* after the elements whose key is not greater.
InsertSorted(list, t) ==
    LET n == Cardinality({k \in 1..Len(list) : ~TupleLess(SortKey(t), SortKey(list[k]))})
    IN  SubSeq(list, 1, n) \o <<t>> \o SubSeq(list, n + 1, Len(list))

RECURSIVE sorted(_)
sorted(list) ==
    IF list = <<>> THEN <<>>
    ELSE InsertSorted(sorted(SubSeq(list, 1, Len(list) - 1)), list[Len(list)])

get_all_tasks(c) ==
    IF c.tasks = <<>>
    THEN CliResult(c.tasks, c.next_id, TRUE, "No tasks found", <<>>)
    ELSE CliResult(c.tasks, c.next_id, TRUE,
                   "Found " \o ToString(Len(sorted(c.tasks))) \o " tasks",
                   sorted(c.tasks))

\* The position of the first task with this id, 0 when there is none.
IndexOf(list, task_id) ==
    IF \E i \in 1..Len(list) : list[i].id = task_id
    THEN CHOOSE i \in 1..Len(list) :
            /\ list[i].id = task_id
            /\ \A j \in 1..(i - 1) : list[j].id # task_id
    ELSE 0

cli_get_task_by_id(c, task_id) ==
    LET i == IndexOf(c.tasks, task_id)
    IN  IF i = 0 THEN CliResult(c.tasks, c.next_id, FALSE, "Task not found", None)
        ELSE CliResult(c.tasks, c.next_id, TRUE, "Task found", Some(c.tasks[i]))

\* toggle_task_completion that marks the task complete whatever it was.
toggle_task_completion_marks_complete(c, task_id) ==
    LET i == IndexOf(c.tasks, task_id)
        task == [c.tasks[i] EXCEPT !.complete = TRUE]
    IN  IF i = 0 THEN CliResult(c.tasks, c.next_id, FALSE, "Task not found", None)
        ELSE CliResult([c.tasks EXCEPT ![i] = task], c.next_id, TRUE,
                       "Task marked as complete", Some(task))

toggle_task_completion(c, task_id) ==
    LET i == IndexOf(c.tasks, task_id)
        task == [c.tasks[i] EXCEPT !.complete = ~c.tasks[i].complete]
    IN  IF i = 0 THEN CliResult(c.tasks, c.next_id, FALSE, "Task not found", None)
        ELSE CliResult([c.tasks EXCEPT ![i] = task], c.next_id, TRUE,
                       IF task.complete THEN "Task marked as complete"
                                        ELSE "Task marked as incomplete",
                       Some(task))

\* update_task without the check that a field is provided.
cli_update_task_unguarded(c, task_id, title, description, priority) ==
    LET i == IndexOf(c.tasks, task_id)
        t0 == c.tasks[i]
        t1 == IF IsNone(title) THEN t0 ELSE [t0 EXCEPT !.title = Strip(Val(title))]
        t2 == IF IsNone(description) THEN t1 ELSE [t1 EXCEPT !.description = Val(description)]
        t3 == IF IsNone(priority) THEN t2 ELSE [t2 EXCEPT !.priority = Val(priority)]
    IN  IF i = 0
        THEN CliResult(c.tasks, c.next_id, FALSE, "Task not found", None)
        ELSE IF ~IsNone(title) /\ ~validate_title(title)[1]
        THEN CliResult(c.tasks, c.next_id, FALSE, validate_title(title)[2], None)
        ELSE IF ~IsNone(priority) /\ ~validate_priority(priority)[1]
        THEN CliResult([c.tasks EXCEPT ![i] = t2], c.next_id, FALSE,
                       validate_priority(priority)[2], None)
        ELSE CliResult([c.tasks EXCEPT ![i] = t3], c.next_id, TRUE,
                       "Task updated successfully", Some(t3))

\* update_task writes the dict in place field by field; a validation failure
\* returns at once, after the writes made before it.
cli_update_task(c, task_id, title, description, priority) ==
    LET i == IndexOf(c.tasks, task_id)
        t0 == c.tasks[i]
        t1 == IF IsNone(title) THEN t0 ELSE [t0 EXCEPT !.title = Strip(Val(title))]
        t2 == IF IsNone(description) THEN t1 ELSE [t1 EXCEPT !.description = Val(description)]
        t3 == IF IsNone(priority) THEN t2 ELSE [t2 EXCEPT !.priority = Val(priority)]
    IN  IF IsNone(title) /\ IsNone(description) /\ IsNone(priority)
        THEN CliResult(c.tasks, c.next_id, FALSE, "No fields to update", None)
        ELSE IF i = 0
        THEN CliResult(c.tasks, c.next_id, FALSE, "Task not found", None)
        ELSE IF ~IsNone(title) /\ ~validate_title(title)[1]
        THEN CliResult(c.tasks, c.next_id, FALSE, validate_title(title)[2], None)
        ELSE IF ~IsNone(priority) /\ ~validate_priority(priority)[1]
        THEN CliResult([c.tasks EXCEPT ![i] = t2], c.next_id, FALSE,
                       validate_priority(priority)[2], None)
        ELSE CliResult([c.tasks EXCEPT ![i] = t3], c.next_id, TRUE,
                       "Task updated successfully", Some(t3))

\* list.remove(x) that removes the head of the list.
ListRemove_head(list, x) == Tail(list)

\* list.remove(x): the first element equal to x is removed.
ListRemove(list, x) ==
    LET k == CHOOSE i \in 1..Len(list) :
                /\ list[i] = x
                /\ \A j \in 1..(i - 1) : list[j] # x
    IN  SubSeq(list, 1, k - 1) \o SubSeq(list, k + 1, Len(list))

cli_delete_task(c, task_id) ==
    LET i == IndexOf(c.tasks, task_id)
    IN  IF i = 0 THEN CliResult(c.tasks, c.next_id, FALSE, "Task not found", None)
        ELSE CliResult(ListRemove(c.tasks, c.tasks[i]), c.next_id, TRUE,
                       "Task deleted successfully", None)

(***************************************************************************)
(* State machine of the CLI: one action per task_service function.         *)
(* cli_ret holds the call and the tuple it returned until the menu loop    *)
(* has displayed it.                                                       *)
(***************************************************************************)
CliTitles == {None, Some(Empty), Some(<<" ">>), Some(TitleA), Some(<<" ", "b", " ">>)}
CliDescriptions == {None, Some(Empty), Some(DescD)}
CliPriorities == {None, Some("High"), Some("Medium"), Some("Low"), Some("high"),
                  Some("HIGH")}
CliIds == 1..MaxCliTasks

Cli == [tasks |-> tasks, next_id |-> next_id]

CliCalled(fn, args, r) ==
    /\ tasks' = r.tasks
    /\ next_id' = r.next_id
    /\ cli_ret' = Some([fn |-> fn, args |-> args, success |-> r.success,
                        message |-> r.message, data |-> r.data])
    /\ UNCHANGED <<program, inputs, clock, db, id_seq, resp, ret, flight>>

Prompt == program = "cli" /\ cli_ret = None

CliArgs(task_id, title, description, priority) ==
    [task_id |-> task_id, title |-> title, description |-> description,
     priority |-> priority]

CliCreateTask ==
    /\ Prompt
    /\ next_id <= MaxCliTasks
    /\ \E t \in CliTitles, d \in CliDescriptions \ {None}, p \in CliPriorities :
          CliCalled("create_task", CliArgs(0, t, d, p),
                    cli_create_task(Cli, t, Val(d), p))

CliGetAllTasks ==
    /\ Prompt
    /\ CliCalled("get_all_tasks", CliArgs(0, None, None, None), get_all_tasks(Cli))

CliGetTaskById ==
    /\ Prompt
    /\ \E i \in CliIds :
          CliCalled("get_task_by_id", CliArgs(i, None, None, None),
                    cli_get_task_by_id(Cli, i))

CliToggleTaskCompletion ==
    /\ Prompt
    /\ \E i \in CliIds :
          CliCalled("toggle_task_completion", CliArgs(i, None, None, None),
                    toggle_task_completion(Cli, i))

CliUpdateTask ==
    /\ Prompt
    /\ \E i \in CliIds, t \in CliTitles, d \in CliDescriptions, p \in CliPriorities :
          CliCalled("update_task", CliArgs(i, t, d, p),
                    cli_update_task(Cli, i, t, d, p))

CliDeleteTask ==
    /\ Prompt
    /\ \E i \in CliIds :
          CliCalled("delete_task", CliArgs(i, None, None, None),
                    cli_delete_task(Cli, i))

CliReturn ==
    /\ program = "cli"
    /\ cli_ret # None
    /\ cli_ret' = None
    /\ UNCHANGED <<program, inputs, clock, db, id_seq, resp, ret, tasks, next_id, flight>>

CliNext ==
    \/ CliCreateTask
    \/ CliGetAllTasks
    \/ CliGetTaskById
    \/ CliToggleTaskCompletion
    \/ CliUpdateTask
    \/ CliDeleteTask
    \/ CliReturn

(***************************************************************************)
(* The API serving two requests at a time.  Each request has its own       *)
(* Session (get_session).  The route's lookup loads the row into the       *)
(* session; the store function called next asks the same session for the   *)
(* same primary key and is handed the object the session already holds;    *)
(* commit() then writes.  Another request may commit between the lookup    *)
(* and the commit.                                                         *)
(***************************************************************************)
Workers == {1, 2}

\* session.get(Task, task_id): the object the session holds under this key,
\* else the row read from the table.
session_get(identity, s, task_id) ==
    IF identity # None /\ Val(identity).id = task_id THEN identity
    ELSE get_task_by_id(s, task_id)

\* update_task on a session that may hold the task already.  The flush
\* writes the attributes whose value differs from the loaded one, to the row
\* as it is in the table now; an UPDATE that matches no row raises
\* StaleDataError, and refresh() of a row that is gone raises too.
session_update_task(s, identity, task_id, updates) ==
    LET found == session_get(identity, s, task_id)
        before == Val(found)
        task == SetAttrs(before, updates)
        changed == {a \in DOMAIN before : task[a] # before[a]}
        row == [a \in DOMAIN before |->
                   IF a \in changed THEN task[a]
                   ELSE IF a = "updated_at" /\ changed # {} THEN s.now[1]
                   ELSE s.db[task_id][a]]
    IN  IF found = None
        THEN [db |-> s.db, id_seq |-> s.id_seq, task |-> None, raised |-> FALSE]
        ELSE IF task_id \notin DOMAIN s.db \/ IntegrityError(task)
        THEN [db |-> s.db, id_seq |-> s.id_seq, task |-> None, raised |-> TRUE]
        ELSE [db |-> Insert(s.db, row), id_seq |-> s.id_seq, task |-> Some(row),
              raised |-> FALSE]

\* delete_task on a session that may hold the task already.  A DELETE that
\* matches no row is a warning of the mapper, not an error.
session_delete_task(s, identity, task_id) ==
    IF session_get(identity, s, task_id) = None
    THEN [db |-> s.db, id_seq |-> s.id_seq, deleted |-> FALSE, raised |-> FALSE]
    ELSE [db |-> Remove(s.db, task_id), id_seq |-> s.id_seq, deleted |-> TRUE,
          raised |-> FALSE]

\* The part of update_existing_task, partially_update_task and
\* delete_task_by_id before the store call: 0 when the request goes on to
\* the store call with the row it loaded, else the status it ends with.
Admit(s, req) ==
    LET cu == get_current_user(req.header)
        task == get_task_by_id(s, req.task_id)
    IN  IF ~cu.ok THEN [status |-> HTTP_401_UNAUTHORIZED, loaded |-> None]
        ELSE IF ~SchemaAccepts(req)
        THEN [status |-> HTTP_422_UNPROCESSABLE, loaded |-> None]
        ELSE IF ~verify_user_id_match(Val(cu.user), req.user_id)
        THEN [status |-> HTTP_403_FORBIDDEN, loaded |-> None]
        ELSE IF IsNone(task) THEN [status |-> HTTP_404_NOT_FOUND, loaded |-> None]
        ELSE IF Val(task).user_id # req.user_id
        THEN [status |-> HTTP_403_FORBIDDEN, loaded |-> None]
        ELSE IF req.method = "PATCH"
                /\ DOMAIN model_dump_exclude_unset(TaskPatch(req.body)) = {}
        THEN [status |-> HTTP_400_BAD_REQUEST, loaded |-> None]
        ELSE [status |-> 0, loaded |-> task]

\* The store call of the route and the status the route ends with.
Complete(s, req, loaded) ==
    IF req.method = "DELETE"
    THEN LET d == session_delete_task(s, loaded, req.task_id)
         IN  IF ~d.deleted THEN Reply(d, HTTP_404_NOT_FOUND, None)
             ELSE Reply(d, HTTP_204_NO_CONTENT, None)
    ELSE LET updates == IF req.method = "PUT" THEN model_dump(TaskUpdate(req.body))
                        ELSE model_dump_exclude_unset(TaskPatch(req.body))
             u == session_update_task(s, loaded, req.task_id, updates)
         IN  IF u.raised THEN Reply(s, HTTP_500_INTERNAL, None)
             ELSE IF IsNone(u.task) THEN Reply(u, HTTP_404_NOT_FOUND, None)
             ELSE Reply(u, HTTP_200_OK, Some(TaskResponse(Val(u.task))))

\* The requests that race: the owner's PUT, PATCH and DELETE on a task.
RaceBodies ==
    [ PUT |-> { Body(Some(Some(TitleB)), None, Some(Some(FALSE))),
                Body(Some(Some(TitleA)), None, Some(Some(TRUE))) },
      PATCH |-> { Body(Some(Some(TitleB)), None, None) },
      DELETE |-> { NoBody } ]
RaceRequests ==
    { Request(m, OwnerHeader, "u1", i, b) :
         m \in {"PUT"}, i \in TaskIds, b \in RaceBodies["PUT"] }
    \cup { Request(m, OwnerHeader, "u1", i, b) :
         m \in {"PATCH"}, i \in TaskIds, b \in RaceBodies["PATCH"] }
    \cup { Request(m, OwnerHeader, "u1", i, b) :
         m \in {"DELETE"}, i \in TaskIds, b \in RaceBodies["DELETE"] }

\* A worker with no request; the server with no request.  start is the
\* table when the first of the requests in flight arrived, commits counts
\* the store calls made since.
\* since: the commits made when the request arrived; order: which commit of
\* the flight was its own.
IdleWorker ==
    [pc |-> "idle", req |-> None, loaded |-> None, status |-> 0, since |-> 0,
     order |-> 0]
NoFlight == [start |-> None, commits |-> 0, w |-> [k \in Workers |-> IdleWorker]]

Racing == program = "race"
Quiet == \A k \in Workers : flight.w[k].pc = "idle"

\* A task is created while no request is in flight.
RaceCreate ==
    /\ Racing
    /\ Quiet
    /\ id_seq <= MaxTasks
    /\ LET r == Serve(Store(<<clock, clock>>),
                      Request("POST", OwnerHeader, "u1", 0,
                              Body(Some(Some(TitleA)), None, None)))
       IN  /\ db' = r.db
           /\ id_seq' = r.id_seq
    /\ UNCHANGED <<program, inputs, clock, resp, ret, tasks, next_id, cli_ret, flight>>

\* A request arrives and its route runs up to the store call.
RaceBegin ==
    /\ Racing
    /\ \E k \in Workers, req \in RaceRequests :
          /\ flight.w[k].pc = "idle"
          /\ LET a == Admit(Store(<<clock, clock>>), req)
                 me == [pc |-> IF a.status = 0 THEN "loaded" ELSE "done",
                        req |-> Some(req), loaded |-> a.loaded,
                        status |-> a.status, since |-> flight.commits, order |-> 0]
             IN  flight' = [flight EXCEPT !.w[k] = me,
                                          !.start = IF Quiet THEN Some(db) ELSE @]
    /\ UNCHANGED <<program, inputs, clock, db, id_seq, resp, ret, tasks, next_id,
                   cli_ret>>

\* The store call of a request and its commit.
RaceCommit ==
    /\ Racing
    /\ \E k \in Workers :
          /\ flight.w[k].pc = "loaded"
          /\ LET r == Complete(Store(<<clock, clock>>), Val(flight.w[k].req),
                               flight.w[k].loaded)
             IN  /\ db' = r.db
                 /\ id_seq' = r.id_seq
                 /\ flight' = [flight EXCEPT !.w[k].pc = "done",
                                              !.w[k].status = r.status,
                                              !.w[k].order = flight.commits + 1,
                                              !.commits = @ + 1]
    /\ UNCHANGED <<program, inputs, clock, resp, ret, tasks, next_id, cli_ret>>

\* The responses of the requests in flight are sent.
RaceFinish ==
    /\ Racing
    /\ ~Quiet
    /\ \A k \in Workers : flight.w[k].pc # "loaded"
    /\ flight' = NoFlight
    /\ UNCHANGED <<program, inputs, clock, db, id_seq, resp, ret, tasks, next_id,
                   cli_ret>>

(***************************************************************************)
(* The specification: a run of the API, of the crud functions on a         *)
(* session, of the CLI, or of the API serving two requests at a time       *)
(***************************************************************************)
Init ==
    /\ program \in {"api", "crud", "cli", "race"}
    /\ inputs \in (IF program = "api" THEN Families ELSE {"fields"})
    /\ clock = 0
    /\ db = EmptyDb
    /\ id_seq = 1
    /\ resp = None
    /\ ret = None
    /\ tasks = <<>>
    /\ next_id = 1
    /\ cli_ret = None
    /\ flight = NoFlight

Next ==
    \/ ListTasks
    \/ CreateNewTask
    \/ GetTask
    \/ UpdateExistingTask
    \/ PartiallyUpdateTask
    \/ DeleteTaskById
    \/ Return
    \/ CrudCreate
    \/ CrudUpdate
    \/ CrudDelete
    \/ CrudGet
    \/ CrudReturn
    \/ CliCreateTask
    \/ CliGetAllTasks
    \/ CliGetTaskById
    \/ CliToggleTaskCompletion
    \/ CliUpdateTask
    \/ CliDeleteTask
    \/ CliReturn
    \/ RaceCreate
    \/ RaceBegin
    \/ RaceCommit
    \/ RaceFinish

Spec == Init /\ [][Next]_vars

(***************************************************************************)
(* Properties                                                              *)
(***************************************************************************)
Requests ==
    { Request("LIST", h, u, 0, NoBody) : h \in Headers, u \in Users }
    \cup { Request("POST", h, u, 0, b) : h \in Headers, u \in Users, b \in CreateBodies }
    \cup { Request(m, h, u, i, NoBody) :
              m \in {"GET", "DELETE"}, h \in Headers, u \in Users, i \in TaskIds }
    \cup { Request(m, h, u, i, b) :
              m \in {"PUT", "PATCH"}, h \in Headers, u \in Users, i \in TaskIds, b \in Bodies }

\* The request was answered and its response is in resp.
Answered == program = "api" /\ resp # None
\* This step answers a request: resp' holds it.
Answers == program = "api" /\ resp = None /\ resp' # None

\* The subject of the request is authenticated and is not `user`.
SubjectIsNot(r, user) == ~IsNone(r.subject) /\ Val(r.subject) # user

Success == {HTTP_200_OK, HTTP_201_CREATED, HTTP_204_NO_CONTENT}

\* C1 as stated: a GET/PUT/PATCH/DELETE on task t by an authenticated subject
\* other than t's owner is answered 403 or 404 and carries no task.
C1_AsStated ==
    [][ \A t \in DOMAIN db :
          ( /\ Answers
            /\ Val(resp').req.method \in ItemMethods
            /\ Val(resp').req.task_id = t
            /\ SubjectIsNot(Val(resp'), db[t].user_id) )
          => /\ Val(resp').status \in {HTTP_403_FORBIDDEN, HTTP_404_NOT_FOUND}
             /\ IsNone(Val(resp').out) ]_vars

\* C1 amended: such a request is answered 403 or 404, or 422 when its body
\* fails the route's schema; never with a success status or a task.
C1_ForeignRequestRefused ==
    [][ \A t \in DOMAIN db :
          ( /\ Answers
            /\ Val(resp').req.method \in ItemMethods
            /\ Val(resp').req.task_id = t
            /\ SubjectIsNot(Val(resp'), db[t].user_id) )
          => /\ \/ Val(resp').status \in {HTTP_403_FORBIDDEN, HTTP_404_NOT_FOUND}
                \/ /\ Val(resp').status = HTTP_422_UNPROCESSABLE
                   /\ ~SchemaAccepts(Val(resp').req)
             /\ Val(resp').status \notin Success
             /\ IsNone(Val(resp').out) ]_vars

\* A subject that names its own id in the path was refused (403) a task that
\* is in the store and belongs to someone else.
C1_Witness ==
    /\ Answered
    /\ Val(resp).req.method \in ItemMethods
    /\ Val(resp).req.task_id \in DOMAIN db
    /\ SubjectIsNot(Val(resp), db[Val(resp).req.task_id].user_id)
    /\ Val(resp).subject = Some(Val(resp).req.user_id)
    /\ Val(resp).status = HTTP_403_FORBIDDEN

\* C2: a stored task changes or disappears only in a step that answers a
\* successful PUT, PATCH or DELETE on it whose subject is its owner.
C2_OnlyOwnerMutates ==
    [][ program = "api" =>
          \A t \in DOMAIN db :
            (IF t \in DOMAIN db' THEN db'[t] # db[t] ELSE TRUE)
            => /\ Answers
               /\ Val(resp').req.method \in {"PUT", "PATCH", "DELETE"}
               /\ Val(resp').req.task_id = t
               /\ Val(resp').subject = Some(db[t].user_id)
               /\ Val(resp').status \in Success ]_vars

\* A mutating request naming the owner's path was answered to another subject,
\* and the task is still stored.
C2_Witness ==
    /\ Answered
    /\ Val(resp).req.method \in {"PUT", "PATCH", "DELETE"}
    /\ SchemaAccepts(Val(resp).req)
    /\ Val(resp).req.task_id \in DOMAIN db
    /\ Val(resp).req.user_id = db[Val(resp).req.task_id].user_id
    /\ SubjectIsNot(Val(resp), Val(resp).req.user_id)

\* C3: list(u) by subject u succeeds and returns exactly the stored tasks
\* whose owner is u.
C3_ListIsOwnTasks ==
    ( /\ Answered
      /\ Val(resp).req.method = "LIST"
      /\ Val(resp).subject = Some(Val(resp).req.user_id) )
    => /\ Val(resp).status = HTTP_200_OK
       /\ \A i \in DOMAIN db :
            db[i].user_id = Val(resp).req.user_id <=> db[i] \in Val(Val(resp).out).tasks
       /\ \A t \in Val(Val(resp).out).tasks : t.id \in DOMAIN db /\ db[t.id] = t
       /\ Val(Val(resp).out).count = Cardinality(Val(Val(resp).out).tasks)

\* A subject listed its tasks while the store held one of its own and one of
\* another subject.
C3_Witness ==
    /\ Answered
    /\ Val(resp).req.method = "LIST"
    /\ Val(resp).status = HTTP_200_OK
    /\ \E i, j \in DOMAIN db :
         /\ db[i].user_id = Val(resp).req.user_id
         /\ db[j].user_id # Val(resp).req.user_id

\* C4 as stated: a request whose subject differs from the path owner is
\* answered 403.
C4_AsStated ==
    ( /\ Answered
      /\ SubjectIsNot(Val(resp), Val(resp).req.user_id) )
    => Val(resp).status = HTTP_403_FORBIDDEN

EmptyStore == [db |-> EmptyDb, id_seq |-> 1, now |-> <<clock, clock>>, fails |-> FALSE]

\* C4 amended: such a request is answered 403, or 422 when its body fails the
\* route's schema, and the response is the one the empty store gives: it does
\* not depend on which tasks exist or who owns them.
C4_GateBeforeLookup ==
    /\ ( /\ Answered
         /\ SubjectIsNot(Val(resp), Val(resp).req.user_id) )
       => \/ Val(resp).status = HTTP_403_FORBIDDEN
          \/ /\ Val(resp).status = HTTP_422_UNPROCESSABLE
             /\ ~SchemaAccepts(Val(resp).req)
    /\ (program = "api" /\ resp = None)
       => \A req \in Requests :
            (~IsNone(Subject(req)) /\ Val(Subject(req)) # req.user_id)
            => /\ Serve(Store(<<clock, clock>>), req).status = Serve(EmptyStore, req).status
               /\ Serve(Store(<<clock, clock>>), req).out = Serve(EmptyStore, req).out
               /\ Serve(Store(<<clock, clock>>), req).db = db

\* A subject was refused (403) under another owner's path for a task id that
\* is in the store, owned by the path owner.
C4_Witness ==
    /\ Answered
    /\ Val(resp).req.method \in ItemMethods
    /\ SubjectIsNot(Val(resp), Val(resp).req.user_id)
    /\ Val(resp).req.task_id \in DOMAIN db
    /\ db[Val(resp).req.task_id].user_id = Val(resp).req.user_id
    /\ Val(resp).status = HTTP_403_FORBIDDEN

\* C5 as stated: with subject = path owner, a GET/PUT/PATCH/DELETE on an id
\* that is not stored returns 404 and on a task owned by someone else 403.
C5_AsStated ==
    [][ ( /\ Answers
          /\ Val(resp').req.method \in ItemMethods
          /\ Val(resp').subject = Some(Val(resp').req.user_id) )
        => /\ Val(resp').req.task_id \notin DOMAIN db
              => Val(resp').status = HTTP_404_NOT_FOUND
           /\ ( /\ Val(resp').req.task_id \in DOMAIN db
                /\ db[Val(resp').req.task_id].user_id # Val(resp').req.user_id )
              => Val(resp').status = HTTP_403_FORBIDDEN ]_vars

\* C5 amended: the same for a request whose body passes the route's schema
\* (a body that fails it is answered 422 in both cases).
C5_NotFoundVersusForbidden ==
    [][ ( /\ Answers
          /\ Val(resp').req.method \in ItemMethods
          /\ Val(resp').subject = Some(Val(resp').req.user_id) )
        => /\ Val(resp').req.task_id \notin DOMAIN db
              => Val(resp').status = IF SchemaAccepts(Val(resp').req)
                                     THEN HTTP_404_NOT_FOUND
                                     ELSE HTTP_422_UNPROCESSABLE
           /\ ( /\ Val(resp').req.task_id \in DOMAIN db
                /\ db[Val(resp').req.task_id].user_id # Val(resp').req.user_id )
              => Val(resp').status = IF SchemaAccepts(Val(resp').req)
                                     THEN HTTP_403_FORBIDDEN
                                     ELSE HTTP_422_UNPROCESSABLE ]_vars

\* A full update with a valid body by a subject under its own path hit a task
\* owned by someone else and was answered 403.
C5_Witness ==
    /\ Answered
    /\ Val(resp).req.method = "PUT"
    /\ SchemaAccepts(Val(resp).req)
    /\ Val(resp).subject = Some(Val(resp).req.user_id)
    /\ Val(resp).req.task_id \in DOMAIN db
    /\ db[Val(resp).req.task_id].user_id # Val(resp).req.user_id
    /\ Val(resp).status = HTTP_403_FORBIDDEN

\* This step is a call of a task_service function, of a crud function.
CliCalls(fn) == program = "cli" /\ cli_ret = None /\ cli_ret' # None /\ Val(cli_ret').fn = fn
CrudCalls(fn) == program = "crud" /\ ret = None /\ ret' # None /\ Val(ret').fn = fn

\* The PATCH of this step leaves the row `after` from the row `before`: each
\* field the body carries has the body's value, the others and id and owner
\* keep theirs.
PatchApplied(body, before, after) ==
    /\ \A f \in BodyFields :
         after[f] = IF f \in DOMAIN body THEN body[f] ELSE before[f]
    /\ after.id = before.id
    /\ after.user_id = before.user_id

\* The same for update_task of the CLI, whose fields are supplied when they
\* are not None; `stored` is what a supplied title is stored as.
CliUpdateApplied(args, before, after, stored) ==
    /\ after.title = IF IsNone(args.title) THEN before.title ELSE stored
    /\ after.description = IF IsNone(args.description) THEN before.description
                           ELSE Val(args.description)
    /\ after.priority = IF IsNone(args.priority) THEN before.priority
                        ELSE Val(args.priority)
    /\ after.complete = before.complete
    /\ after.id = before.id

PatchSucceeds ==
    Answers /\ Val(resp').req.method = "PATCH" /\ Val(resp').status = HTTP_200_OK

\* C6 as stated: on a successful partial update (PATCH, CLI update_task) each
\* supplied field takes the supplied value and the others keep theirs.
C6_AsStated ==
    [][ /\ PatchSucceeds
           => /\ Val(resp').req.task_id \in DOMAIN db \cap DOMAIN db'
              /\ PatchApplied(Val(resp').req.body, db[Val(resp').req.task_id],
                              db'[Val(resp').req.task_id])
        /\ (CliCalls("update_task") /\ Val(cli_ret').success)
           => LET i == IndexOf(tasks, Val(cli_ret').args.task_id)
              IN  /\ i # 0
                  /\ Len(tasks') = Len(tasks)
                  /\ CliUpdateApplied(Val(cli_ret').args, tasks[i], tasks'[i],
                                      Val(Val(cli_ret').args.title)) ]_vars

\* C6 amended: the same, except that the CLI stores a supplied title with its
\* leading and trailing whitespace removed.
C6_PartialUpdateFrame ==
    [][ /\ PatchSucceeds
           => /\ Val(resp').req.task_id \in DOMAIN db \cap DOMAIN db'
              /\ PatchApplied(Val(resp').req.body, db[Val(resp').req.task_id],
                              db'[Val(resp').req.task_id])
        /\ (CliCalls("update_task") /\ Val(cli_ret').success)
           => LET i == IndexOf(tasks, Val(cli_ret').args.task_id)
              IN  /\ i # 0
                  /\ Len(tasks') = Len(tasks)
                  /\ CliUpdateApplied(Val(cli_ret').args, tasks[i], tasks'[i],
                                      Strip(Val(Val(cli_ret').args.title))) ]_vars

\* The CLI updated a task with a title that carries surrounding whitespace and
\* without a priority.
C6_Witness ==
    /\ program = "cli"
    /\ cli_ret # None
    /\ Val(cli_ret).fn = "update_task"
    /\ Val(cli_ret).success
    /\ ~IsNone(Val(cli_ret).args.title)
    /\ Strip(Val(Val(cli_ret).args.title)) # Val(Val(cli_ret).args.title)
    /\ IsNone(Val(cli_ret).args.priority)

\* C7: a PATCH whose body carries none of the fields is answered with a client
\* error, 400 when the task is stored and owned by the caller, and the store
\* is as before.
C7_EmptyPatchRejected ==
    [][ ( /\ Answers
          /\ Val(resp').req.method = "PATCH"
          /\ DOMAIN Val(resp').req.body \cap BodyFields = {} )
        => /\ Val(resp').status >= 400
           /\ Val(resp').status < 500
           /\ db' = db
           /\ ( /\ Val(resp').subject = Some(Val(resp').req.user_id)
                /\ Val(resp').req.task_id \in DOMAIN db
                /\ db[Val(resp').req.task_id].user_id = Val(resp').req.user_id )
              => Val(resp').status = HTTP_400_BAD_REQUEST ]_vars

\* The owner of a stored task sent it a PATCH with no field and got 400.
C7_Witness ==
    /\ Answered
    /\ Val(resp).req.method = "PATCH"
    /\ DOMAIN Val(resp).req.body \cap BodyFields = {}
    /\ Val(resp).req.task_id \in DOMAIN db
    /\ Val(resp).subject = Some(db[Val(resp).req.task_id].user_id)
    /\ Val(resp).status = HTTP_400_BAD_REQUEST

\* C8 as stated: crud.update_task with an empty field map, and the CLI's
\* update_task with every field None, fail on an existing id.
C8_AsStated ==
    [][ /\ ( /\ CrudCalls("update_task")
             /\ DOMAIN Val(ret').args.updates = {}
             /\ Val(ret').args.task_id \in DOMAIN db )
           => /\ IsNone(Val(ret').result)
              /\ db' = db
        /\ ( /\ CliCalls("update_task")
             /\ IsNone(Val(cli_ret').args.title)
             /\ IsNone(Val(cli_ret').args.description)
             /\ IsNone(Val(cli_ret').args.priority)
             /\ IndexOf(tasks, Val(cli_ret').args.task_id) # 0 )
           => /\ ~Val(cli_ret').success
              /\ Val(cli_ret').message = "No fields to update"
              /\ tasks' = tasks ]_vars

\* C8 amended: the CLI's update_task with every field None fails with "No
\* fields to update" and writes nothing; crud.update_task has no such check
\* and, given an empty field map on an existing id, returns the task with
\* every field as it was.
C8_EmptyUpdate ==
    [][ /\ ( /\ CrudCalls("update_task")
             /\ DOMAIN Val(ret').args.updates = {}
             /\ Val(ret').args.task_id \in DOMAIN db )
           => /\ ~Val(ret').raised
              /\ Val(ret').result = Some(db[Val(ret').args.task_id])
              /\ db' = db
        /\ ( /\ CliCalls("update_task")
             /\ IsNone(Val(cli_ret').args.title)
             /\ IsNone(Val(cli_ret').args.description)
             /\ IsNone(Val(cli_ret').args.priority)
             /\ IndexOf(tasks, Val(cli_ret').args.task_id) # 0 )
           => /\ ~Val(cli_ret').success
              /\ Val(cli_ret').message = "No fields to update"
              /\ tasks' = tasks ]_vars

\* crud.update_task was called with an empty field map on a stored task and
\* returned it.
C8_Witness ==
    /\ program = "crud"
    /\ ret # None
    /\ Val(ret).fn = "update_task"
    /\ DOMAIN Val(ret).args.updates = {}
    /\ Val(ret).args.task_id \in DOMAIN db
    /\ ~IsNone(Val(ret).result)

\* C9: a successful PUT leaves title, description and completion equal to the
\* request's and id and owner as they were; a PUT on an id that is not stored
\* never succeeds, creates nothing, and is answered 404 once it has passed
\* authentication, validation and the gate.
C9_FullUpdate ==
    [][ (Answers /\ Val(resp').req.method = "PUT")
        => LET r == Val(resp')
               i == r.req.task_id
           IN  /\ r.status = HTTP_200_OK
                  => /\ i \in DOMAIN db \cap DOMAIN db'
                     /\ db'[i].title = r.req.body["title"]
                     /\ "description" \in DOMAIN r.req.body
                        => db'[i].description = r.req.body["description"]
                     /\ db'[i].complete = r.req.body["complete"]
                     /\ db'[i].id = db[i].id
                     /\ db'[i].user_id = db[i].user_id
                     /\ r.out = Some(db'[i])
               /\ i \notin DOMAIN db
                  => /\ r.status \notin Success
                     /\ db' = db
                     /\ id_seq' = id_seq
                     /\ (r.subject = Some(r.req.user_id) /\ SchemaAccepts(r.req))
                        => r.status = HTTP_404_NOT_FOUND ]_vars

\* A PUT that carries all three fields succeeded.
C9_Witness ==
    /\ Answered
    /\ Val(resp).req.method = "PUT"
    /\ DOMAIN Val(resp).req.body = BodyFields
    /\ Val(resp).status = HTTP_200_OK

\* C10: a PUT by the owner of a stored task that leaves out title, description
\* or completion is answered 422 and the stored task is unchanged.
C10_AsStated ==
    [][ ( /\ Answers
          /\ Val(resp').req.method = "PUT"
          /\ Val(resp').req.task_id \in DOMAIN db
          /\ Val(resp').subject = Some(Val(resp').req.user_id)
          /\ db[Val(resp').req.task_id].user_id = Val(resp').req.user_id
          /\ ~(BodyFields \subseteq DOMAIN Val(resp').req.body) )
        => /\ Val(resp').status = HTTP_422_UNPROCESSABLE
           /\ db' = db ]_vars

\* This step answers a POST with 201; its row has the key id_seq.
Creates == Answers /\ Val(resp').req.method = "POST" /\ Val(resp').status = HTTP_201_CREATED

\* This step answers a successful PUT, PATCH or DELETE on task i.
Mutates(i) ==
    /\ Answers
    /\ Val(resp').req.method \in {"PUT", "PATCH", "DELETE"}
    /\ Val(resp').req.task_id = i
    /\ Val(resp').status \in Success

\* The row a POST stores and returns carries the request's title and
\* description and completion false.
CreatedAsRequested ==
    Creates =>
        /\ id_seq \notin DOMAIN db
        /\ id_seq \in DOMAIN db'
        /\ db'[id_seq].user_id = Val(resp').req.user_id
        /\ db'[id_seq].title = Val(resp').req.body["title"]
        /\ db'[id_seq].description = Field(Val(resp').req.body, "description")
        /\ db'[id_seq].complete = Some(FALSE)
        /\ Val(resp').out = Some(db'[id_seq])

\* A request that is no successful PUT, PATCH or DELETE on a stored task
\* leaves its row as it is, and a GET answered 200 returns the row.
KeptUntilRead ==
    /\ \A i \in DOMAIN db :
          (program = "api" /\ ~Mutates(i)) => (i \in DOMAIN db' /\ db'[i] = db[i])
    /\ (Answers /\ Val(resp').req.method = "GET" /\ Val(resp').status = HTTP_200_OK)
       => /\ Val(resp').req.task_id \in DOMAIN db
          /\ Val(resp').out = Some(db[Val(resp').req.task_id])
          /\ Val(resp').subject = Some(db[Val(resp').req.task_id].user_id)

\* C11 as stated: a created task read back by its owner before any mutating
\* request on it has the title and description of the create request,
\* completion false, and created_at equal to updated_at.
C11_AsStated ==
    [][ /\ CreatedAsRequested
        /\ Creates => db'[id_seq].created_at = db'[id_seq].updated_at
        /\ KeptUntilRead ]_vars

\* C11 amended: the same, with created_at not later than updated_at; the
\* two are separate readings of the clock, taken in this order during the
\* create request.
C11_RoundTrip ==
    [][ /\ CreatedAsRequested
        /\ Creates => /\ clock <= db'[id_seq].created_at
                      /\ db'[id_seq].created_at <= db'[id_seq].updated_at
                      /\ db'[id_seq].updated_at <= clock'
        /\ KeptUntilRead ]_vars

\* The owner read back a task whose completion is false and whose updated_at
\* is later than its created_at.
C11_Witness ==
    /\ Answered
    /\ Val(resp).req.method = "GET"
    /\ Val(resp).status = HTTP_200_OK
    /\ Val(Val(resp).out).complete = Some(FALSE)
    /\ Val(Val(resp).out).title = Some(TitleA)
    /\ Val(Val(resp).out).created_at < Val(Val(resp).out).updated_at

\* Key i was handed out and its row is gone: the row was deleted.
Deleted(i) == i < id_seq /\ i \notin DOMAIN db
\* The same for the CLI's list.
CliDeleted(i) == i < next_id /\ IndexOf(tasks, i) = 0

\* C12: a deleted id stays deleted, and every later get, update and delete
\* of it fails without an exception and without a write; the failure is
\* not-found (404, None or False, "Task not found") whenever the call is one
\* that reaches the lookup: in the API a request of an authenticated subject
\* under its own path with a valid body, in the CLI an update that supplies
\* a field.
C12_DeletedStaysNotFound ==
    [][ /\ \A i \in TaskIds :
             /\ Mutates(i) /\ Val(resp').req.method = "DELETE" => i \notin DOMAIN db'
             /\ Deleted(i) => (i \notin DOMAIN db' /\ id_seq' >= id_seq)
             /\ ( /\ Deleted(i)
                  /\ Answers
                  /\ Val(resp').req.method \in ItemMethods
                  /\ Val(resp').req.task_id = i )
                => /\ Val(resp').status \notin Success \cup {HTTP_500_INTERNAL}
                   /\ db' = db
                   /\ ( /\ Val(resp').subject = Some(Val(resp').req.user_id)
                        /\ SchemaAccepts(Val(resp').req) )
                      => Val(resp').status = HTTP_404_NOT_FOUND
             /\ ( /\ Deleted(i)
                  /\ program = "crud" /\ ret = None /\ ret' # None
                  /\ Val(ret').fn \in {"get_task_by_id", "update_task", "delete_task"}
                  /\ Val(ret').args.task_id = i )
                => /\ ~Val(ret').raised
                   /\ db' = db
                   /\ Val(ret').result = IF Val(ret').fn = "delete_task"
                                         THEN Some(FALSE) ELSE None
        /\ \A i \in CliIds :
             /\ CliDeleted(i) => (IndexOf(tasks', i) = 0 /\ next_id' >= next_id)
             /\ ( /\ CliDeleted(i)
                  /\ program = "cli" /\ cli_ret = None /\ cli_ret' # None
                  /\ Val(cli_ret').fn \in {"get_task_by_id", "update_task", "delete_task",
                                           "toggle_task_completion"}
                  /\ Val(cli_ret').args.task_id = i )
                => /\ ~Val(cli_ret').success
                   /\ tasks' = tasks
                   /\ ( \/ Val(cli_ret').fn # "update_task"
                        \/ ~IsNone(Val(cli_ret').args.title)
                        \/ ~IsNone(Val(cli_ret').args.description)
                        \/ ~IsNone(Val(cli_ret').args.priority) )
                      => Val(cli_ret').message = "Task not found" ]_vars

\* The owner's second DELETE of a task was answered 404.
C12_Witness ==
    /\ Answered
    /\ Val(resp).req.method = "DELETE"
    /\ Deleted(Val(resp).req.task_id)
    /\ Val(resp).subject = Some(Val(resp).req.user_id)
    /\ Val(resp).status = HTTP_404_NOT_FOUND

\* The ids of the CLI's list are pairwise distinct and below next_id.
CliIdsDistinct ==
    /\ \A j, k \in 1..Len(tasks) : tasks[j].id = tasks[k].id => j = k
    /\ \A k \in 1..Len(tasks) : tasks[k].id >= 1 /\ tasks[k].id < next_id

\* C13: in the CLI the ids of the list are pairwise distinct and below
\* next_id, next_id never decreases, and a successful create_task appends a
\* task whose id is the old next_id, above every id in the list, and moves
\* next_id past it; no other call moves next_id.
C13_IdsNeverReused ==
    [][ program = "cli" =>
          /\ CliIdsDistinct
          /\ CliIdsDistinct'
          /\ next_id' >= next_id
          /\ IF CliCalls("create_task") /\ Val(cli_ret').success
             THEN /\ Val(Val(cli_ret').data).id = next_id
                  /\ next_id' = next_id + 1
                  /\ tasks' = Append(tasks, Val(Val(cli_ret').data))
                  /\ \A k \in 1..Len(tasks) : tasks[k].id < Val(Val(cli_ret').data).id
             ELSE next_id' = next_id ]_vars

\* A task was created after the first one was deleted, and has id 2.
C13_Witness ==
    /\ program = "cli"
    /\ cli_ret # None
    /\ Val(cli_ret).fn = "create_task"
    /\ Val(cli_ret).success
    /\ Len(tasks) = 1
    /\ tasks[1].id = 2

\* Task a comes before task b in the required order: incomplete before
\* complete, then High before Medium before Low, then the smaller id.
Rank(priority) == IF priority = "High" THEN 0 ELSE IF priority = "Medium" THEN 1 ELSE 2
ComesBefore(a, b) ==
    \/ ~a.complete /\ b.complete
    \/ a.complete = b.complete /\ Rank(a.priority) < Rank(b.priority)
    \/ a.complete = b.complete /\ a.priority = b.priority /\ a.id < b.id

\* The list is in the required order.
InOrder(list) == \A j, k \in 1..Len(list) : j < k => ComesBefore(list[j], list[k])

\* One list is a permutation of the other.
Permutation(a, b) ==
    /\ Len(a) = Len(b)
    /\ \A x \in {a[k] : k \in 1..Len(a)} \cup {b[k] : k \in 1..Len(b)} :
          Cardinality({k \in 1..Len(a) : a[k] = x}) = Cardinality({k \in 1..Len(b) : b[k] = x})

\* The list of the scenario: (1, Low, incomplete), (2, High, complete),
\* (3, Medium, incomplete), (4, High, incomplete).
ScenarioTask(id, priority, complete) ==
    [id |-> id, title |-> TitleA, description |-> Empty, priority |-> priority,
     complete |-> complete]
ScenarioList ==
    << ScenarioTask(1, "Low", FALSE), ScenarioTask(2, "High", TRUE),
       ScenarioTask(3, "Medium", FALSE), ScenarioTask(4, "High", FALSE) >>

\* C14: get_all_tasks returns a permutation of the stored tasks in the order
\* (incomplete first, High < Medium < Low, id ascending) and leaves the list
\* as it is; the list of the scenario is returned in id order 4, 3, 1, 2.
C14_ListIsSorted ==
    /\ ( program = "cli" /\ cli_ret # None /\ Val(cli_ret).fn = "get_all_tasks" )
       => /\ Val(cli_ret).success
          /\ Permutation(Val(cli_ret).data, tasks)
          /\ InOrder(Val(cli_ret).data)
    /\ program = "cli"
       => LET out == get_all_tasks([tasks |-> ScenarioList, next_id |-> 5]).data
          IN  [k \in 1..Len(out) |-> out[k].id] = <<4, 3, 1, 2>>

\* get_all_tasks returned two tasks in another order than the list holds them.
C14_Witness ==
    /\ program = "cli"
    /\ cli_ret # None
    /\ Val(cli_ret).fn = "get_all_tasks"
    /\ Len(tasks) = 2
    /\ Val(cli_ret).data # tasks

\* The answered request carried a validly signed, unexpired bearer token.
ValidTokenAnswered ==
    /\ Answered
    /\ Val(resp).req.header # None
    /\ Val(Val(resp).req.header).bearer
    /\ Val(Val(resp).req.header).token.sig_ok
    /\ ~Val(Val(resp).req.header).token.expired

AnsweredClaims == Val(Val(resp).req.header).token.claims

\* The claim is in the token; the claim is in the token with a value.
Present(claims, k) == k \in DOMAIN claims
PresentNonEmpty(claims, k) == k \in DOMAIN claims /\ claims[k] # ""

\* C15 as stated: for a validly signed, unexpired token the subject is the
\* user_id claim whenever that claim is present, otherwise the sub claim,
\* and authentication fails when neither is present; sub is never returned
\* when a user_id claim is present.
C15_AsStated ==
    ValidTokenAnswered =>
       LET c == AnsweredClaims
           subject == Val(resp).subject
       IN  /\ Present(c, "user_id") => subject = Some(c.user_id)
           /\ ( ~Present(c, "user_id") /\ Present(c, "sub") ) => subject = Some(c.sub)
           /\ ( ~Present(c, "user_id") /\ ~Present(c, "sub") )
                 => subject = None /\ Val(resp).status = HTTP_401_UNAUTHORIZED
           /\ ( Present(c, "user_id") /\ Present(c, "sub") /\ c.sub # c.user_id )
                 => subject # Some(c.sub)

\* C15 amended: for a validly signed, unexpired token the subject is the
\* user_id claim whenever that claim is present and not empty, otherwise the
\* sub claim when that is present and not empty, and authentication fails
\* (401, no subject) when neither is; sub is never returned when a non-empty
\* user_id claim is present.
C15_PrefersUserId ==
    ValidTokenAnswered =>
       LET c == AnsweredClaims
           subject == Val(resp).subject
       IN  /\ PresentNonEmpty(c, "user_id") => subject = Some(c.user_id)
           /\ ( ~PresentNonEmpty(c, "user_id") /\ PresentNonEmpty(c, "sub") )
                 => subject = Some(c.sub)
           /\ ( ~PresentNonEmpty(c, "user_id") /\ ~PresentNonEmpty(c, "sub") )
                 => subject = None /\ Val(resp).status = HTTP_401_UNAUTHORIZED
           /\ ( PresentNonEmpty(c, "user_id") /\ Present(c, "sub") /\ c.sub # c.user_id )
                 => subject # Some(c.sub)

\* A token carrying both claims was answered with the user_id claim as subject.
C15_Witness ==
    /\ ValidTokenAnswered
    /\ Present(AnsweredClaims, "user_id")
    /\ Present(AnsweredClaims, "sub")
    /\ AnsweredClaims.user_id = "u1"
    /\ AnsweredClaims.sub = "u2"
    /\ Val(resp).subject = Some("u1")

\* The ways a credential fails: it is missing, it lacks the "Bearer " prefix,
\* its signature is invalid, it is expired, it carries no identity claim.
CredentialFails(h) ==
    \/ h = None
    \/ ~Val(h).bearer
    \/ ~Val(h).token.sig_ok
    \/ Val(h).token.expired
    \/ ( ~Present(Val(h).token.claims, "user_id") /\ ~Present(Val(h).token.claims, "sub") )

\* C16: a request whose credential is missing, lacks the "Bearer " prefix,
\* has an invalid signature, is expired or carries no identity claim is
\* answered 401, has no subject, leaves the store as it is, and its answer
\* is the one the empty store gives (the store is not read).
C16_BadCredentialIs401 ==
    [][ ( Answers /\ CredentialFails(Val(resp').req.header) )
        => /\ Val(resp').status = HTTP_401_UNAUTHORIZED
           /\ Val(resp').subject = None
           /\ db' = db
           /\ id_seq' = id_seq
           /\ Val(resp').status = Serve(EmptyStore, Val(resp').req).status
           /\ Val(resp').out = Serve(EmptyStore, Val(resp').req).out ]_vars

\* An expired token asked to delete a stored task and was answered 401.
C16_Witness ==
    /\ Answered
    /\ Val(resp).req.header = Bearer(Token(TRUE, TRUE, [user_id |-> "u1"]))
    /\ Val(resp).req.method = "DELETE"
    /\ Val(resp).req.task_id \in DOMAIN db
    /\ db[Val(resp).req.task_id].user_id = "u1"
    /\ Val(resp).status = HTTP_401_UNAUTHORIZED

\* The title is empty once its leading and trailing whitespace is removed.
BlankTitle(title) == Strip(title) = Empty

\* The titles the API stores and the titles the console stores.
ApiTitlesNotBlank ==
    \A i \in DOMAIN db : db[i].title # None /\ ~BlankTitle(Val(db[i].title))
CliTitlesNotBlank ==
    \A k \in 1..Len(tasks) : ~BlankTitle(tasks[k].title)

\* A POST, PUT or PATCH whose body carries an empty or whitespace-only title
\* was not answered with a success status.
ApiBlankTitleRejected ==
    ( /\ Answered
      /\ Val(resp).req.method \in {"POST", "PUT", "PATCH"}
      /\ "title" \in DOMAIN Val(resp).req.body
      /\ Val(resp).req.body.title # None
      /\ BlankTitle(Val(Val(resp).req.body.title)) )
    => Val(resp).status \notin Success

\* A create_task or update_task whose title is empty or whitespace-only failed.
CliBlankTitleRejected ==
    ( /\ program = "cli"
      /\ cli_ret # None
      /\ Val(cli_ret).fn \in {"create_task", "update_task"}
      /\ Val(cli_ret).args.title # None
      /\ BlankTitle(Val(Val(cli_ret).args.title)) )
    => ~Val(cli_ret).success

\* C17 as stated: in the API and in the console every stored title is
\* non-empty after trimming, and a create or update whose title is empty or
\* whitespace-only is rejected.
C17_AsStated ==
    /\ program = "api" => ApiTitlesNotBlank /\ ApiBlankTitleRejected
    /\ program = "cli" => CliTitlesNotBlank /\ CliBlankTitleRejected

\* The console's half of C17 alone.
CliTitlesNeverBlank == program = "cli" => CliTitlesNotBlank /\ CliBlankTitleRejected

\* The answered request is a create by an authenticated user under its own path.
CreateAnswered ==
    /\ Answered
    /\ Val(resp).req.method = "POST"
    /\ Val(resp).subject = Some(Val(resp).req.user_id)

\* C18: a create with a title of 201 characters is a validation failure and
\* one with a title of 200 characters succeeds; every stored task has a
\* title of 1..200 characters and a description that is null or of at most
\* 1000 characters; a PATCH with an explicit null title does not succeed and
\* no null title is stored.
C18_LengthLimits ==
    program = "api" =>
       /\ ( CreateAnswered /\ Field(Val(resp).req.body, "title") # None
                           /\ Len(Val(Field(Val(resp).req.body, "title"))) = MaxTitleLen + 1 )
             => Val(resp).status = HTTP_422_UNPROCESSABLE
       /\ ( CreateAnswered /\ Field(Val(resp).req.body, "title") # None
                           /\ Len(Val(Field(Val(resp).req.body, "title"))) = MaxTitleLen
                           /\ OptionalDescriptionOk(Val(resp).req.body) )
             => Val(resp).status = HTTP_201_CREATED
       /\ \A i \in DOMAIN db :
             /\ db[i].title # None
             /\ Len(Val(db[i].title)) >= 1
             /\ Len(Val(db[i].title)) <= MaxTitleLen
             /\ ( db[i].description = None \/ Len(Val(db[i].description)) <= MaxDescLen )
       /\ ( Answered /\ Val(resp).req.method = "PATCH"
                     /\ "title" \in DOMAIN Val(resp).req.body
                     /\ Val(resp).req.body.title = None )
             => Val(resp).status \notin Success

\* A create with a title of 200 characters was answered 201 and is stored,
\* together with a description of 1000 characters.
C18_Witness ==
    /\ CreateAnswered
    /\ Field(Val(resp).req.body, "title") = Some(X200)
    /\ Val(resp).status = HTTP_201_CREATED
    /\ \E i \in DOMAIN db : db[i].title = Some(X200) /\ db[i].description = Some(D1000)

\* Every row of the table is still there with the id and the owner it had.
OwnersKept ==
    \A i \in DOMAIN db :
       i \in DOMAIN db' /\ db'[i].id = db[i].id /\ db'[i].user_id = db[i].user_id

\* C19 as stated: every update_task call, whatever its field map, and every
\* PUT or PATCH request leaves the id and the owner of every task as they were.
C19_AsStated ==
    [][ ( \/ CrudCalls("update_task")
          \/ Answers /\ Val(resp').req.method \in {"PUT", "PATCH"} )
        => OwnersKept ]_vars

\* The requests' half of C19 alone: PUT and PATCH keep id and owner.
RequestsKeepOwner ==
    [][ ( Answers /\ Val(resp').req.method \in {"PUT", "PATCH"} ) => OwnersKept ]_vars

\* After this step no stored task was updated before it was created, and
\* every task that stays in the table keeps its creation time.
TimestampsKept ==
    /\ \A i \in DOMAIN db' : db'[i].updated_at >= db'[i].created_at
    /\ \A i \in DOMAIN db \cap DOMAIN db' : db'[i].created_at = db[i].created_at

\* C20 as stated: in the persisted variant, the clock never running
\* backwards, every stored task has updated_at >= created_at in every
\* reachable state and its created_at never changes after creation.
C20_AsStated == [][ (program \in {"api", "crud"}) => TimestampsKept ]_vars

\* The requests' half of C20 alone: the routes keep the timestamps in order.
RequestsKeepTimestamps == [][ (program = "api") => TimestampsKept ]_vars

\* Under the routes a task is stored that was updated after it was created.
UpdatedLater ==
    program = "api" /\ \E i \in DOMAIN db : db[i].updated_at > db[i].created_at

\* This step answers a PUT or PATCH on a stored task with 200.
WriteSucceeds ==
    /\ Answers
    /\ Val(resp').req.method \in {"PUT", "PATCH"}
    /\ Val(resp').status = HTTP_200_OK

\* The task the write of this step addresses was stamped by this step: its
\* updated_at is not before its former value and is a reading of the clock
\* taken during the step.
Stamped ==
    LET i == Val(resp').req.task_id
    IN  /\ db'[i].updated_at >= db[i].updated_at
        /\ db'[i].updated_at >= clock
        /\ db'[i].updated_at <= clock'

\* C21 as stated: every successful PUT, and every successful PATCH (it
\* carries at least one field), also one whose values equal the stored ones,
\* sets updated_at to the time of the write.
C21_AsStated == [][ WriteSucceeds => Stamped ]_vars

\* The half of C21 that holds: a successful PUT or PATCH that changes a
\* stored value sets updated_at to the time of the write.
ChangingWritesStamp ==
    [][ ( WriteSucceeds
          /\ \E f \in BodyFields :
                db'[Val(resp').req.task_id][f] # db[Val(resp').req.task_id][f] )
        => Stamped ]_vars

\* The field map without the keys that name no attribute of a task.
KnownKeys(updates) == [k \in DOMAIN updates \cap TaskAttrs |-> updates[k]]

\* C22: update_task ignores the keys of the field map that name no task
\* attribute: the call raises nothing, and the task it returns and the table
\* it leaves are those of the same call with these keys removed.
C22_UnknownKeysIgnored ==
    [][ CrudCalls("update_task")
        => LET args == Val(ret').args
               r == update_task(StoreThat(Val(ret').fails), args.task_id,
                                KnownKeys(args.updates))
           IN  /\ Val(ret').result = r.task
               /\ Val(ret').raised = r.raised
               /\ db' = r.db
               /\ ( DOMAIN args.updates \cap TaskAttrs = {} ) => ~Val(ret').raised ]_vars

\* update_task was called with a title and an unknown key and stored the title.
C22_Witness ==
    /\ program = "crud"
    /\ ret # None
    /\ Val(ret).fn = "update_task"
    /\ DOMAIN Val(ret).args.updates = {"title", "priority"}
    /\ Val(ret).result # None
    /\ DOMAIN Val(Val(ret).result) = TaskAttrs
    /\ db[Val(ret).args.task_id].title = Some(TitleB)

\* This step is a create_task, update_task or delete_task call that raised.
WriteFails ==
    /\ program = "crud" /\ ret = None /\ ret' # None
    /\ Val(ret').fn \in {"create_task", "update_task", "delete_task"}
    /\ Val(ret').raised

\* C23: when the database write of create_task, update_task or delete_task
\* fails, the call raises after the rollback: the table and its key sequence
\* are what they were before the call, and a call during which the database
\* rejects a write does raise.
C23_FailedWriteRolledBack ==
    [][ /\ WriteFails => db' = db /\ id_seq' = id_seq /\ Val(ret').result = None
        /\ ( program = "crud" /\ ret = None /\ ret' # None /\ Val(ret').fails )
           => db' = db ]_vars

\* The database rejected the UPDATE of a stored task's title, and the task
\* has the title it had.
C23_Witness ==
    /\ program = "crud"
    /\ ret # None
    /\ Val(ret).fn = "update_task"
    /\ Val(ret).fails
    /\ Val(ret).raised
    /\ Val(ret).args.task_id \in DOMAIN db
    /\ "title" \in DOMAIN Val(ret).args.updates
    /\ Val(ret).args.updates.title # db[Val(ret).args.task_id].title

\* The three legal priorities.
LegalPriorities == {"High", "Medium", "Low"}

\* C24: in the console, a create_task or update_task whose priority is not
\* exactly "High", "Medium" or "Low" (a case variant such as "high" or "HIGH"
\* included) fails; every stored task's priority is one of the three, so
\* the priority lookup of get_all_tasks is defined for every stored task
\* and get_all_tasks succeeds.
C24_PriorityIsLegal ==
    program = "cli" =>
       /\ \A k \in 1..Len(tasks) :
             /\ tasks[k].priority \in LegalPriorities
             /\ priority_order(tasks[k].priority) \in 0..2
       /\ ( /\ cli_ret # None
            /\ Val(cli_ret).fn \in {"create_task", "update_task"}
            /\ Val(cli_ret).args.priority # None
            /\ Val(Val(cli_ret).args.priority) \notin LegalPriorities )
          => ~Val(cli_ret).success
       /\ ( cli_ret # None /\ Val(cli_ret).fn = "get_all_tasks" )
          => Val(cli_ret).success

\* update_task with the priority "high" on a stored task failed, and the
\* task has the legal priority it had.
C24_Witness ==
    /\ program = "cli"
    /\ cli_ret # None
    /\ Val(cli_ret).fn = "update_task"
    /\ Val(cli_ret).args.priority = Some("high")
    /\ IndexOf(tasks, Val(cli_ret).args.task_id) # 0
    /\ ~Val(cli_ret).success
    /\ tasks[IndexOf(tasks, Val(cli_ret).args.task_id)].priority = "Low"

\* C25: toggle_task_completion(i) on a stored task succeeds, negates the
\* completion flag of that task, leaves its id, title, description and
\* priority, every other task, the order of the list and next_id as they
\* were; a second toggle_task_completion(i) gives back the list and next_id
\* of before the first.
C25_ToggleFlipsOnlyCompletion ==
    [][ ( /\ CliCalls("toggle_task_completion")
          /\ IndexOf(tasks, Val(cli_ret').args.task_id) # 0 )
        => LET i == Val(cli_ret').args.task_id
               k == IndexOf(tasks, i)
               again == toggle_task_completion([tasks |-> tasks', next_id |-> next_id'], i)
           IN  /\ Val(cli_ret').success
               /\ Len(tasks') = Len(tasks)
               /\ tasks'[k].complete = ~tasks[k].complete
               /\ \A f \in {"id", "title", "description", "priority"} :
                     tasks'[k][f] = tasks[k][f]
               /\ \A j \in 1..Len(tasks) : j # k => tasks'[j] = tasks[j]
               /\ next_id' = next_id
               /\ again.success
               /\ again.tasks = tasks
               /\ again.next_id = next_id ]_vars

\* A task of two was toggled back to incomplete; the other one is complete.
C25_Witness ==
    /\ program = "cli"
    /\ cli_ret # None
    /\ Val(cli_ret).fn = "toggle_task_completion"
    /\ Val(cli_ret).success
    /\ Len(tasks) = 2
    /\ Val(cli_ret).args.task_id = 1
    /\ tasks[IndexOf(tasks, 1)].complete = FALSE
    /\ tasks[IndexOf(tasks, 2)].complete = TRUE

\* This step is a task_service call that returned success = False.
CliFails == program = "cli" /\ cli_ret = None /\ cli_ret' # None /\ ~Val(cli_ret').success

\* C26 as stated: every task_service call that returns success = False
\* leaves the task list and next_id exactly as they were before the call.
C26_AsStated == [][ CliFails => tasks' = tasks /\ next_id' = next_id ]_vars

\* The half of C26 that holds: a failed call leaves the list and next_id as
\* they were, unless it is an update_task that supplies a title or a
\* description together with an invalid priority.
FailuresWriteNothingButPriority ==
    [][ ( /\ CliFails
          /\ ~ ( /\ Val(cli_ret').fn = "update_task"
                 /\ ~validate_priority(Val(cli_ret').args.priority)[1]
                 /\ ( Val(cli_ret').args.title # None
                      \/ Val(cli_ret').args.description # None ) ) )
        => tasks' = tasks /\ next_id' = next_id ]_vars

\* The worker whose store call this step makes.
Commits(k) == Racing /\ flight.w[k].pc = "loaded" /\ flight'.w[k].pc = "done"

\* Every row but the one with this key is in the table as it was.
OtherRowsKept(i) ==
    \A j \in DOMAIN db : j # i => ( j \in DOMAIN db' /\ db'[j] = db[j] )

\* Every task of the list but the one with this id is in the list as it
\* was, in the order it was, and no task was added.
OtherTasksKept(i) ==
    SelectSeq(tasks', LAMBDA t : t.id # i) = SelectSeq(tasks, LAMBDA t : t.id # i)

\* The store the requests in flight found when the first of them arrived.
StartStore ==
    [db |-> Val(flight.start), id_seq |-> id_seq, now |-> <<clock, clock>>,
     fails |-> FALSE]

\* One request served after the other on the store s: the table that results.
OneAfterTheOther(s, first, second) ==
    LET r == Serve(s, first)
    IN  Serve([s EXCEPT !.db = r.db, !.id_seq = r.id_seq], second).db

\* Both requests in flight have ended and they addressed different tasks.
BothDoneApart ==
    /\ Racing
    /\ \A k \in Workers : flight.w[k].pc = "done"
    /\ Val(flight.w[1].req).task_id # Val(flight.w[2].req).task_id

\* The requests overlapped: each arrived before the other's store call.
Overlapped == \A k \in Workers : flight.w[k].since = 0 /\ flight.w[k].order > 0

\* Console calls that write, on one task.
CliWrites(i) ==
    { [fn |-> "toggle_task_completion", args |-> CliArgs(i, None, None, None)],
      [fn |-> "delete_task", args |-> CliArgs(i, None, None, None)],
      [fn |-> "update_task", args |-> CliArgs(i, Some(TitleA), None, None)],
      [fn |-> "update_task", args |-> CliArgs(i, None, Some(DescD), Some("Low"))],
      [fn |-> "update_task", args |-> CliArgs(i, Some(TitleB), None, Some("high"))] }

\* The console state after the call.
CliApply(c, call) ==
    LET a == call.args
        r == CASE call.fn = "toggle_task_completion" -> toggle_task_completion(c, a.task_id)
               [] call.fn = "delete_task" -> cli_delete_task(c, a.task_id)
               [] call.fn = "update_task" ->
                     cli_update_task(c, a.task_id, a.title, a.description, a.priority)
    IN  [tasks |-> r.tasks, next_id |-> r.next_id]

\* C27: a PUT, PATCH or DELETE addressed to task i, served alone or beside
\* another request, and a console toggle, update or delete of task i leave
\* every task with another id as it was; two requests on different tasks
\* that are served at the same time leave the table that serving them one
\* after the other leaves, in either order, and two console calls on
\* different tasks give the same list in either order.
C27_OtherTasksUntouched ==
    [][ /\ ( Answers /\ Val(resp').req.method \in {"PUT", "PATCH", "DELETE"} )
           => OtherRowsKept(Val(resp').req.task_id)
        /\ \A k \in Workers :
              Commits(k) => OtherRowsKept(Val(flight.w[k].req).task_id)
        /\ BothDoneApart'
           => LET r1 == Val(flight'.w[1].req)
                  r2 == Val(flight'.w[2].req)
              IN  /\ db' = OneAfterTheOther(StartStore', r1, r2)
                  /\ db' = OneAfterTheOther(StartStore', r2, r1)
        /\ ( \E fn \in {"toggle_task_completion", "update_task", "delete_task"} :
                CliCalls(fn) )
           => /\ OtherTasksKept(Val(cli_ret').args.task_id)
              /\ \A i, j \in CliIds :
                    i # j => \A a \in CliWrites(i), b \in CliWrites(j) :
                                CliApply(CliApply(Cli, a), b) = CliApply(CliApply(Cli, b), a)
      ]_vars

\* Two requests that overlapped, a PUT on task 1 and a DELETE on task 2,
\* both succeeded.
C27_Witness ==
    /\ BothDoneApart
    /\ Overlapped
    /\ Val(flight.w[1].req).method = "PUT"
    /\ Val(flight.w[1].req).task_id = 1
    /\ flight.w[1].status = HTTP_200_OK
    /\ Val(flight.w[2].req).method = "DELETE"
    /\ flight.w[2].status = HTTP_204_NO_CONTENT
    /\ flight.w[2].order = 1
    /\ 1 \in DOMAIN db
    /\ db[1].title = Some(TitleB)

\* A request whose session holds the row as the table has it ends as the
\* same request served alone.
SessionAgreesWithServe ==
    [][ \A k \in Workers :
           ( Commits(k) /\ flight.w[k].loaded = get_task_by_id(Store(<<clock, clock>>),
                                                                Val(flight.w[k].req).task_id) )
           => /\ db' = Serve(Store(<<clock, clock>>), Val(flight.w[k].req)).db
              /\ flight'.w[k].status
                    = Serve(Store(<<clock, clock>>), Val(flight.w[k].req)).status ]_vars

\* Two PUT requests on the same task were in flight and both made their
\* store call.
TwoPutsDone ==
    /\ Racing
    /\ \A k \in Workers :
          /\ flight.w[k].pc = "done"
          /\ flight.w[k].order > 0
          /\ Val(flight.w[k].req).method = "PUT"
    /\ Val(flight.w[1].req).task_id = Val(flight.w[2].req).task_id

\* The request of the flight that committed last.
LastWriter == Val(flight.w[CHOOSE k \in Workers : flight.w[k].order = 2].req)

\* C28 as stated: when two PUT requests of the owner on the same task
\* interleave, both are answered 200 and the stored title, description and
\* completion are those of the request that committed last.
C28_AsStated ==
    TwoPutsDone =>
       /\ \A k \in Workers : flight.w[k].status = HTTP_200_OK
       /\ LastWriter.task_id \in DOMAIN db
       /\ \A f \in BodyFields :
             db[LastWriter.task_id][f] = model_dump(TaskUpdate(LastWriter.body))[f]

\* The half of C28 that holds: neither PUT is rejected.
PutsNeverRejected ==
    TwoPutsDone => \A k \in Workers : flight.w[k].status = HTTP_200_OK

\* A DELETE and another PUT, PATCH or DELETE on the same task were in flight
\* and both have ended.
DeleteRaceDone ==
    /\ Racing
    /\ \A k \in Workers : flight.w[k].pc = "done"
    /\ Val(flight.w[1].req).task_id = Val(flight.w[2].req).task_id
    /\ \E k \in Workers : Val(flight.w[k].req).method = "DELETE"

\* The status a request ends with when it succeeds.
SuccessStatus(req) == IF req.method = "DELETE" THEN HTTP_204_NO_CONTENT ELSE HTTP_200_OK

\* A DELETE of the flight succeeded and the task is not in the table.
DeletedStaysDeleted ==
    ( \E k \in Workers : /\ Val(flight.w[k].req).method = "DELETE"
                         /\ flight.w[k].status = HTTP_204_NO_CONTENT )
    => Val(flight.w[1].req).task_id \notin DOMAIN db

\* C29 as stated: when a DELETE races with a PUT, PATCH or second DELETE of
\* the owner on the same task, each request ends with its success status or
\* 404, the deleted task is not in the table afterwards, and at most one of
\* two DELETEs ends with 204.
C29_AsStated ==
    DeleteRaceDone =>
       /\ \A k \in Workers :
             flight.w[k].status \in {SuccessStatus(Val(flight.w[k].req)), HTTP_404_NOT_FOUND}
       /\ DeletedStaysDeleted
       /\ ~ \A k \in Workers : /\ Val(flight.w[k].req).method = "DELETE"
                               /\ flight.w[k].status = HTTP_204_NO_CONTENT

\* The half of C29 that holds: the racing update does not re-create the task.
DeletedNeverRecreated == DeleteRaceDone => DeletedStaysDeleted

\* Two DELETEs of the same task that overlapped both ended with 204.
BothDeletesSucceed ==
    /\ DeleteRaceDone
    /\ Overlapped
    /\ \A k \in Workers : /\ Val(flight.w[k].req).method = "DELETE"
                          /\ flight.w[k].status = HTTP_204_NO_CONTENT

\* A PUT or PATCH that lost the race against a DELETE ended with 500.
UpdateAfterDeleteFails ==
    /\ DeleteRaceDone
    /\ \E k \in Workers : /\ Val(flight.w[k].req).method \in {"PUT", "PATCH"}
                          /\ flight.w[k].status = HTTP_500_INTERNAL

\* Every task that enters the table in this step enters through a POST
\* answered 201 whose subject is the path's owner, and is owned by that
\* subject; every task that stays keeps its owner.
CreatedByOwner ==
    /\ \A t \in DOMAIN db' \ DOMAIN db :
          /\ Answers
          /\ Val(resp').req.method = "POST"
          /\ Val(resp').status = HTTP_201_CREATED
          /\ Val(resp').subject = Some(Val(resp').req.user_id)
          /\ db'[t].user_id = Val(Val(resp').subject)
    /\ \A t \in DOMAIN db \cap DOMAIN db' : db'[t].user_id = db[t].user_id

\* This step answers a POST whose authenticated subject is not the path's owner.
ForeignPost ==
    /\ Answers
    /\ Val(resp').req.method = "POST"
    /\ SubjectIsNot(Val(resp'), Val(resp').req.user_id)

\* C30 as stated: a task enters the table only through a POST whose subject
\* is the path's owner, owned by that subject, and a POST whose subject is
\* not the path's owner is answered 403 and creates nothing.
C30_AsStated ==
    [][ (program = "api") =>
          /\ CreatedByOwner
          /\ ForeignPost => /\ Val(resp').status = HTTP_403_FORBIDDEN
                            /\ db' = db /\ id_seq' = id_seq ]_vars

\* C30, amended: a task enters the table only through a POST whose subject
\* is the path's owner, owned by that subject, and keeps that owner; a POST
\* whose subject is not the path's owner creates nothing and is answered 403,
\* or 422 when its body fails the schema.
C30_TasksEnterByOwnPost ==
    [][ (program = "api") =>
          /\ CreatedByOwner
          /\ ForeignPost =>
                /\ Val(resp').status =
                      (IF SchemaAccepts(Val(resp').req)
                       THEN HTTP_403_FORBIDDEN ELSE HTTP_422_UNPROCESSABLE)
                /\ db' = db /\ id_seq' = id_seq ]_vars

\* A task is stored, owned by the subject that created it, and a POST with a
\* valid body on that owner's path was answered 403 to another subject.
C30_Witness ==
    /\ Answered
    /\ Val(resp).req.method = "POST"
    /\ SchemaAccepts(Val(resp).req)
    /\ SubjectIsNot(Val(resp), Val(resp).req.user_id)
    /\ Val(resp).status = HTTP_403_FORBIDDEN
    /\ \E t \in DOMAIN db : db[t].user_id = Val(resp).req.user_id

====
